---- MODULE Spec2Model ----
(***************************************************************************)
(* A model of the semantic front-end of my-lang:                           *)
(*   - type_checker/type_environment.rs : the lexically scoped             *)
(*     TypeEnvironment (frames with a parent link, a types map and a       *)
(*     variables map);                                                     *)
(*   - type_checker/type_checker.rs : create_typed_ast, the two-pass       *)
(*     entry point (discovery, then elaboration);                          *)
(*   - display.rs : Indent and the IndentDisplay renderers of the typed    *)
(*     IR;                                                                 *)
(*   - the pattern compiler, assignability and the scope discipline of     *)
(*     the elaboration pass, as the specification describes them.          *)
(***************************************************************************)
EXTENDS Integers, Sequences, FiniteSets, TLC

VARIABLES frames, birth, last, ops,
          program, pc, dpos, discovered, given, epos, typed, diagnostics,
          checked, result,
          node, entry, build, indent, out, again, rstate,
          arms, tree, value, leaf, mstate,
          src, mid, dst, judged,
          scope, left

envVars == <<frames, birth, last, ops>>

tcVars == <<program, pc, dpos, discovered, given, epos, typed, diagnostics,
            checked, result>>

\* The renderer: the node, the Indent on entry, the build profile, the
\* Indent now, the output, the output of a second rendering, and the status.
rdVars == <<node, entry, build, indent, out, again, rstate>>

\* The pattern compiler: the arms, the decision tree, a scrutinee value, the
\* leaf it reaches, and the status.
pmVars == <<arms, tree, value, leaf, mstate>>

\* Assignability: three types and the judgements made about them.
asVars == <<src, mid, dst, judged>>

\* The scope discipline: the stack of nodes entered and the node last left.
scVars == <<scope, left>>

auxVars == <<rdVars, pmVars, asVars, scVars>>

vars == <<frames, birth, last, ops, program, pc, dpos, discovered, given,
          epos, typed, diagnostics, checked, result,
          node, entry, build, indent, out, again, rstate,
          arms, tree, value, leaf, mstate, src, mid, dst, judged, scope, left>>

(***************************************************************************)
(* Bounds of the model.                                                    *)
(***************************************************************************)
\* Number of TypeEnvironment values that can be alive at the same time.
MaxFrames == 3
\* Number of environment calls in one behaviour.
MaxOps == 5
\* Number of top-level statements of a program.
MaxStmts == 3
\* Number of fields of a rendered struct declaration, and of shared fields
\* of a rendered enum declaration.
MaxFields == 2
\* Number of members of a rendered enum declaration.
MaxMembers == 2
\* Number of statements of a rendered program or block, and of cases of a
\* rendered switch.
MaxItems == 2
\* Number of levels on the Indent a node is rendered with.
MaxLevels == 2
\* Number of arms of a compiled match.
MaxArms == 3

\* The greatest number of levels of an Indent value called on its own.
MaxStack == 4

\* The greatest length of a vector handed to indent_display_vec on its own.
MaxVec == 3

\* The greatest nesting of composite expressions in a tree rendered by the
\* counter-based renderer.
MaxNest == 2

FrameIds == 1..MaxFrames

Min(S) == CHOOSE i \in S : \A j \in S : i <= j

(***************************************************************************)
(* Types.  A Type value is a record; two Struct types with the same name   *)
(* and different fields are different values with the same full name.      *)
(***************************************************************************)
Prim(tag) == [tag |-> tag, name |-> "", fields |-> <<>>]

Struct(name, fields) == [tag |-> "Struct", name |-> name, fields |-> fields]

\* Option<&Type>::None
None == [tag |-> "None", name |-> "", fields |-> <<>>]

\* Type::full_name(): the canonical name used as the key of the types map.
full_name(t) ==
    CASE t.tag = "Void"   -> "void"
      [] t.tag = "Unit"   -> "()"
      [] t.tag = "Bool"   -> "bool"
      [] t.tag = "I8"     -> "i8"
      [] t.tag = "I16"    -> "i16"
      [] t.tag = "I32"    -> "i32"
      [] t.tag = "I64"    -> "i64"
      [] t.tag = "I128"   -> "i128"
      [] t.tag = "U8"     -> "u8"
      [] t.tag = "U16"    -> "u16"
      [] t.tag = "U32"    -> "u32"
      [] t.tag = "U64"    -> "u64"
      [] t.tag = "U128"   -> "u128"
      [] t.tag = "F32"    -> "f32"
      [] t.tag = "F64"    -> "f64"
      [] t.tag = "Char"   -> "char"
      [] t.tag = "String" -> "string"
      [] OTHER            -> t.name

(***************************************************************************)
(* HashMap<String, Type>: a function whose domain is the set of keys.      *)
(***************************************************************************)
EmptyMap == [k \in {} |-> None]

contains_key(m, k) == k \in DOMAIN m

\* HashMap::insert: the new value replaces the value of an existing key.
insert(m, k, v) == [x \in DOMAIN m \cup {k} |-> IF x = k THEN v ELSE m[x]]

\* HashMap::get
get(m, k) == IF k \in DOMAIN m THEN m[k] ELSE None

\* HashMap::from(array of pairs): a later pair replaces an earlier one.
RECURSIVE from(_)
from(pairs) ==
    IF pairs = <<>> THEN EmptyMap
    ELSE LET n == Len(pairs)
         IN  insert(from(SubSeq(pairs, 1, n - 1)), pairs[n][1], pairs[n][2])

(***************************************************************************)
(* TypeEnvironment.  A frame is [parent, types, variables]; parent = 0 is  *)
(* Option::None, otherwise it is the id of the frame the reference points  *)
(* to.  `frames` maps the id of every live frame to its value.             *)
(***************************************************************************)
NoParent == 0

\* A variant of new in which the key "u16" is bound to Type::U32.
new_u16_as_u32 ==
    [parent    |-> NoParent,
     types     |-> from(<< <<"void",   Prim("Void")>>,
                           <<"()",     Prim("Unit")>>,
                           <<"bool",   Prim("Bool")>>,
                           <<"i8",     Prim("I8")>>,
                           <<"i16",    Prim("I16")>>,
                           <<"i32",    Prim("I32")>>,
                           <<"i64",    Prim("I64")>>,
                           <<"i128",   Prim("I128")>>,
                           <<"u8",     Prim("U8")>>,
                           <<"u16",    Prim("U32")>>,
                           <<"u32",    Prim("U32")>>,
                           <<"u64",    Prim("U64")>>,
                           <<"u128",   Prim("U128")>>,
                           <<"f32",    Prim("F32")>>,
                           <<"f64",    Prim("F64")>>,
                           <<"char",   Prim("Char")>>,
                           <<"string", Prim("String")>> >>),
     variables |-> EmptyMap]

\* TypeEnvironment::new
new ==
    [parent    |-> NoParent,
     types     |-> from(<< <<"void",   Prim("Void")>>,
                           <<"()",     Prim("Unit")>>,
                           <<"bool",   Prim("Bool")>>,
                           <<"i8",     Prim("I8")>>,
                           <<"i16",    Prim("I16")>>,
                           <<"i32",    Prim("I32")>>,
                           <<"i64",    Prim("I64")>>,
                           <<"i128",   Prim("I128")>>,
                           <<"u8",     Prim("U8")>>,
                           <<"u16",    Prim("U16")>>,
                           <<"u32",    Prim("U32")>>,
                           <<"u64",    Prim("U64")>>,
                           <<"u128",   Prim("U128")>>,
                           <<"f32",    Prim("F32")>>,
                           <<"f64",    Prim("F64")>>,
                           <<"char",   Prim("Char")>>,
                           <<"string", Prim("String")>> >>),
     variables |-> EmptyMap]

\* Result::Ok(()), Result::Err(message) and the unit value of a call that
\* returns nothing.
Ok == [tag |-> "Ok", msg |-> ""]

Err(msg) == [tag |-> "Err", msg |-> msg]

Unit == [tag |-> "Unit", msg |-> ""]

\* <TypeEnvironment as Clone>::clone(&self), derived: the parent reference
\* is copied, the two maps are cloned.
clone(h, self) ==
    [parent    |-> h[self].parent,
     types     |-> h[self].types,
     variables |-> h[self].variables]

\* TypeEnvironment::new_child(&'a self)
new_child(self) ==
    [parent    |-> self,
     types     |-> EmptyMap,
     variables |-> EmptyMap]

\* Variants of add_type: one that looks the name up through the parent chain
\* before inserting, one that inserts over an existing binding.
RECURSIVE bound_in_chain(_, _, _)
bound_in_chain(h, self, fn) ==
    IF contains_key(h[self].types, fn) THEN TRUE
    ELSE IF h[self].parent # NoParent THEN bound_in_chain(h, h[self].parent, fn)
    ELSE FALSE

add_type_checks_chain(h, self, type_) ==
    LET fn == full_name(type_)
    IN  IF bound_in_chain(h, self, fn)
        THEN [heap |-> h, ret |-> Err("Type " \o fn \o " already exists")]
        ELSE [heap |-> [h EXCEPT ![self].types = insert(@, full_name(type_), type_)],
              ret  |-> Ok]

add_type_overwrites(h, self, type_) ==
    LET fn == full_name(type_)
    IN  IF contains_key(h[self].types, fn)
        THEN [heap |-> [h EXCEPT ![self].types = insert(@, full_name(type_), type_)],
              ret  |-> Err("Type " \o fn \o " already exists")]
        ELSE [heap |-> [h EXCEPT ![self].types = insert(@, full_name(type_), type_)],
              ret  |-> Ok]

\* A variant of add_type that stores the type under the name of its kind.
add_type_keyed_by_kind(h, self, type_) ==
    LET fn == full_name(type_)
    IN  IF contains_key(h[self].types, fn)
        THEN [heap |-> h, ret |-> Err("Type " \o fn \o " already exists")]
        ELSE [heap |-> [h EXCEPT ![self].types = insert(@, type_.tag, type_)],
              ret  |-> Ok]

\* TypeEnvironment::add_type(&mut self, type_): the heap after the call and
\* the Result it returns.
add_type(h, self, type_) ==
    LET fn == full_name(type_)
    IN  IF contains_key(h[self].types, fn)
        THEN [heap |-> h, ret |-> Err("Type " \o fn \o " already exists")]
        ELSE [heap |-> [h EXCEPT ![self].types = insert(@, full_name(type_), type_)],
              ret  |-> Ok]

\* Variants of add_variable: one that assigns to the nearest frame that
\* already binds the name, one that keeps an existing local binding.
RECURSIVE binder_of(_, _, _)
binder_of(h, self, name) ==
    IF contains_key(h[self].variables, name) THEN self
    ELSE IF h[self].parent # NoParent THEN binder_of(h, h[self].parent, name)
    ELSE 0

add_variable_assigns_nearest(h, self, name, type_) ==
    LET b == binder_of(h, self, name)
        target == IF b = 0 THEN self ELSE b
    IN  [heap |-> [h EXCEPT ![target].variables = insert(@, name, type_)],
         ret  |-> Unit]

add_variable_keeps_existing(h, self, name, type_) ==
    [heap |-> [h EXCEPT ![self].variables =
                   IF contains_key(@, name) THEN @ ELSE insert(@, name, type_)],
     ret  |-> Unit]

\* A variant of add_variable that binds the name in the types map as well.
add_variable_binds_type(h, self, name, type_) ==
    [heap |-> [h EXCEPT ![self].variables = insert(@, name, type_),
                        ![self].types = insert(@, name, type_)],
     ret  |-> Unit]

\* TypeEnvironment::add_variable(&mut self, name, type_)
add_variable(h, self, name, type_) ==
    [heap |-> [h EXCEPT ![self].variables = insert(@, name, type_)],
     ret  |-> Unit]

\* A variant of get_type that asks the parent before the local frame.
RECURSIVE get_type_parent_first(_, _, _)
get_type_parent_first(h, self, name) ==
    LET up == IF h[self].parent # NoParent
              THEN get_type_parent_first(h, h[self].parent, name)
              ELSE None
    IN  IF up # None THEN up ELSE get(h[self].types, name)

\* TypeEnvironment::get_type(&self, name)
RECURSIVE get_type(_, _, _)
get_type(h, self, name) ==
    IF contains_key(h[self].types, name) THEN get(h[self].types, name)
    ELSE IF h[self].parent # NoParent THEN get_type(h, h[self].parent, name)
    ELSE None

\* A variant of get_variable that asks the parent before the local frame.
RECURSIVE get_variable_parent_first(_, _, _)
get_variable_parent_first(h, self, name) ==
    LET up == IF h[self].parent # NoParent
              THEN get_variable_parent_first(h, h[self].parent, name)
              ELSE None
    IN  IF up # None THEN up ELSE get(h[self].variables, name)

\* TypeEnvironment::get_variable(&self, name)
RECURSIVE get_variable(_, _, _)
get_variable(h, self, name) ==
    IF contains_key(h[self].variables, name) THEN get(h[self].variables, name)
    ELSE IF h[self].parent # NoParent THEN get_variable(h, h[self].parent, name)
    ELSE None

\* A variant of get_types that adds the bindings of the ancestors which the
\* frame does not shadow.
RECURSIVE get_types_with_inherited(_, _)
get_types_with_inherited(h, self) ==
    IF h[self].parent = NoParent THEN h[self].types
    ELSE LET up == get_types_with_inherited(h, h[self].parent)
         IN  [k \in DOMAIN up \cup DOMAIN h[self].types |->
                 IF k \in DOMAIN h[self].types THEN h[self].types[k] ELSE up[k]]

\* TypeEnvironment::get_types(&self)
get_types(h, self) == h[self].types

\* TypeEnvironment::get_variables(&self)
get_variables(h, self) == h[self].variables

\* A variant of lookup_type that looks in the local frame only.
lookup_type_local_only(h, self, x) == contains_key(h[self].types, full_name(x))

\* TypeEnvironment::lookup_type(&self, full_name: &T) where T: FullName
RECURSIVE lookup_type(_, _, _)
lookup_type(h, self, x) ==
    IF contains_key(h[self].types, full_name(x)) THEN TRUE
    ELSE IF h[self].parent # NoParent THEN lookup_type(h, h[self].parent, x)
    ELSE FALSE

(***************************************************************************)
(* Inputs of the environment calls.                                        *)
(***************************************************************************)
I32 == Prim("I32")

String == Prim("String")

\* Two struct types named Point that differ in their fields, and a struct
\* whose name is the name of a built-in type.
PointA == Struct("Point", <<"x">>)

PointB == Struct("Point", <<"x", "y">>)

ShadowI32 == Struct("i32", <<"v">>)

TypeInputs == {I32, PointA, PointB, ShadowI32}

VariableInputs == {<<"x", I32>>, <<"x", String>>, <<"Point", I32>>}

(***************************************************************************)
(* The borrow discipline.  A child holds `&'a TypeEnvironment<'a>` to its  *)
(* parent, so while a child is alive the parent can be neither mutated     *)
(* (&mut self) nor dropped.                                                *)
(***************************************************************************)
Children(h, f) == {g \in DOMAIN h : h[g].parent = f}

Borrowed(h, f) == Children(h, f) # {}

\* The frames on the path from f to the root, f first.
RECURSIVE Chain(_, _)
Chain(h, f) ==
    IF h[f].parent = NoParent THEN <<f>> ELSE <<f>> \o Chain(h, h[f].parent)

Ancestors(h, f) == {Chain(h, f)[i] : i \in 2..Len(Chain(h, f))}

FreeId(h) == CHOOSE i \in FrameIds \ DOMAIN h : \A j \in FrameIds \ DOMAIN h : i <= j

Alloc(h, frame) == [i \in DOMAIN h \cup {FreeId(h)} |-> IF i \in DOMAIN h THEN h[i] ELSE frame]

Release(h, f) == [i \in DOMAIN h \ {f} |-> h[i]]

\* A frame value that stands for "no frame".
NoFrame == [parent |-> -1, types |-> EmptyMap, variables |-> EmptyMap]

NoCall == [op |-> "none", self |-> 0, name |-> "", type |-> None, ret |-> Unit,
           was |-> NoFrame]

\* A call: the operation, the frame it was called on, its arguments, what it
\* returned, and the value of the frame just before the call.
Call(op, self, name, type, ret, was) ==
    [op |-> op, self |-> self, name |-> name, type |-> type, ret |-> ret,
     was |-> was]

(***************************************************************************)
(* The environment as a state machine.                                     *)
(*   frames : the live frames                                              *)
(*   birth  : for every live frame, the heap as it was just before the     *)
(*            frame was created                                            *)
(*   last   : the most recent call, what it returned and the frame it was  *)
(*            called on as it was before the call                          *)
(*   ops    : the number of calls made so far                              *)
(***************************************************************************)
\* No node is being rendered.
RdIdle ==
    /\ node = [kind |-> "idle"]
    /\ entry = <<>>
    /\ build = "idle"
    /\ indent = <<>>
    /\ out = <<>>
    /\ again = <<>>
    /\ rstate = "idle"

\* No match is being compiled.
PmIdle ==
    /\ arms = <<>>
    /\ tree = [kind |-> "idle"]
    /\ value = <<>>
    /\ leaf = [kind |-> "idle"]
    /\ mstate = "idle"

\* No assignment is being judged.
AsIdle ==
    /\ src = [tag |-> "idle"]
    /\ mid = [tag |-> "idle"]
    /\ dst = [tag |-> "idle"]
    /\ judged = <<>>

\* No node is being elaborated.
ScIdle ==
    /\ scope = <<>>
    /\ left = [kind |-> "idle"]

\* No create_typed_ast call is under way.
TcIdle ==
    /\ program = <<>>
    /\ pc = "idle"
    /\ dpos = 0
    /\ discovered = <<>>
    /\ given = <<>>
    /\ epos = 0
    /\ typed = <<>>
    /\ diagnostics = <<>>

EnvInit ==
    /\ frames = [i \in {} |-> new]
    /\ birth = [i \in {} |-> frames]
    /\ last = NoCall
    /\ ops = 0
    /\ TcIdle
    /\ checked = [tag |-> "None", val |-> <<>>, msg |-> ""]
    /\ result = [tag |-> "None", val |-> <<>>, msg |-> ""]
    /\ RdIdle
    /\ PmIdle
    /\ AsIdle
    /\ ScIdle

CanCall == ops < MaxOps

New ==
    /\ CanCall
    /\ DOMAIN frames # FrameIds
    /\ frames' = Alloc(frames, new)
    /\ birth' = Alloc(birth, frames)
    /\ last' = Call("new", FreeId(frames), "", None, Unit, NoFrame)
    /\ ops' = ops + 1
    /\ UNCHANGED tcVars
    /\ UNCHANGED auxVars

NewChild(p) ==
    /\ CanCall
    /\ p \in DOMAIN frames
    /\ DOMAIN frames # FrameIds
    /\ frames' = Alloc(frames, new_child(p))
    /\ birth' = Alloc(birth, frames)
    /\ last' = Call("new_child", FreeId(frames), "", None, Unit, NoFrame)
    /\ ops' = ops + 1
    /\ UNCHANGED tcVars
    /\ UNCHANGED auxVars

\* self.clone(), derived for TypeEnvironment: a new value with the parent,
\* the types and the variables of f.  It borrows what f borrows.
Clone(f) ==
    /\ CanCall
    /\ f \in DOMAIN frames
    /\ DOMAIN frames # FrameIds
    /\ frames' = Alloc(frames, clone(frames, f))
    /\ birth' = Alloc(birth, frames)
    /\ last' = Call("clone", FreeId(frames), "", None, Unit, frames[f])
    /\ ops' = ops + 1
    /\ UNCHANGED tcVars
    /\ UNCHANGED auxVars

AddType(f, t) ==
    /\ CanCall
    /\ f \in DOMAIN frames
    /\ ~Borrowed(frames, f)
    /\ frames' = add_type(frames, f, t).heap
    /\ last' = Call("add_type", f, full_name(t), t, add_type(frames, f, t).ret, frames[f])
    /\ ops' = ops + 1
    /\ UNCHANGED tcVars
    /\ UNCHANGED auxVars
    /\ UNCHANGED birth

AddVariable(f, n, t) ==
    /\ CanCall
    /\ f \in DOMAIN frames
    /\ ~Borrowed(frames, f)
    /\ frames' = add_variable(frames, f, n, t).heap
    /\ last' = Call("add_variable", f, n, t, add_variable(frames, f, n, t).ret, frames[f])
    /\ ops' = ops + 1
    /\ UNCHANGED tcVars
    /\ UNCHANGED auxVars
    /\ UNCHANGED birth

Drop(f) ==
    /\ CanCall
    /\ f \in DOMAIN frames
    /\ ~Borrowed(frames, f)
    /\ frames' = Release(frames, f)
    /\ birth' = Release(birth, f)
    /\ last' = Call("drop", f, "", None, Unit, frames[f])
    /\ ops' = ops + 1
    /\ UNCHANGED tcVars
    /\ UNCHANGED auxVars

EnvNext ==
    \/ New
    \/ \E p \in FrameIds : NewChild(p)
    \/ \E f \in FrameIds : Clone(f)
    \/ \E f \in FrameIds, t \in TypeInputs : AddType(f, t)
    \/ \E f \in FrameIds, v \in VariableInputs : AddVariable(f, v[1], v[2])
    \/ \E f \in FrameIds : Drop(f)

(***************************************************************************)
(* create_typed_ast(program, type_environment): the discovery pass over    *)
(* the whole program, then the elaboration pass.                           *)
(*   program     : the root Statement::Program, as its list of statements  *)
(*   pc          : "idle", "start", "discover", "check" or "done"          *)
(*   dpos        : the statement the discovery scan is at                  *)
(*   discovered  : the DiscoveredType records found so far                 *)
(*   given       : the list handed to statements::check_type               *)
(*   epos        : the statement elaboration is at (0: not started)        *)
(*   typed       : the typed statements produced so far                    *)
(*   diagnostics : the errors recorded during elaboration                  *)
(*   checked     : what statements::check_type returned                    *)
(*   result      : what create_typed_ast returned                          *)
(***************************************************************************)
\* Statements of the surface AST.
StructDeclaration(name, fields) ==
    [kind |-> "StructDeclaration", name |-> name, fields |-> fields, ok |-> TRUE]

\* Statement::Expression; ok tells whether the expression type-checks.
Expression(ok) ==
    [kind |-> "Expression", name |-> "", fields |-> <<>>, ok |-> ok]

Statements ==
    {StructDeclaration("Point", <<"x">>), StructDeclaration("Point", <<"x", "y">>),
     StructDeclaration("Shape", <<"r">>), Expression(TRUE), Expression(FALSE)}

RECURSIVE SeqsUpTo(_, _)
SeqsUpTo(S, n) ==
    IF n = 0 THEN {<<>>}
    ELSE SeqsUpTo(S, n - 1) \cup
         {Append(q, x) : q \in {r \in SeqsUpTo(S, n - 1) : Len(r) = n - 1}, x \in S}

Programs == SeqsUpTo(Statements, MaxStmts)

\* DiscoveredType::Struct(TypeIdentifier, fields)
DiscoveredStruct(name, fields) == [kind |-> "Struct", id |-> name, fields |-> fields]

\* Result<T, String>
OkOf(v) == [tag |-> "Ok", val |-> v, msg |-> ""]

ErrOf(msg) == [tag |-> "Err", val |-> <<>>, msg |-> msg]

NoResult == [tag |-> "None", val |-> <<>>, msg |-> ""]

\* One step of the discovery scan: the statement stmt seen after the records
\* acc.  A declaration whose name is already recorded is an error; a
\* statement that declares nothing is skipped.
discover_statement(acc, stmt) ==
    IF stmt.kind = "StructDeclaration"
    THEN IF \E i \in 1..Len(acc) : acc[i].id = stmt.name
         THEN ErrOf("DuplicateDeclaration " \o stmt.name)
         ELSE OkOf(Append(acc, DiscoveredStruct(stmt.name, stmt.fields)))
    ELSE OkOf(acc)

\* statements::discover_user_defined_types(&program)
RECURSIVE discover_from(_, _, _)
discover_from(prog, i, acc) ==
    IF i > Len(prog) THEN OkOf(acc)
    ELSE LET r == discover_statement(acc, prog[i])
         IN  IF r.tag = "Err" THEN r ELSE discover_from(prog, i + 1, r.val)

discover_user_defined_types(prog) == discover_from(prog, 1, <<>>)

\* Type::Unknown, the type of a node whose elaboration failed.
Unknown == Prim("Unknown")

\* Elaboration of one statement in the environment self of the heap h: the
\* heap afterwards, the typed statement, and the diagnostics it adds.  A
\* declaration materializes its type in the environment; a statement that
\* fails still yields a typed statement, of type Unknown.
check_statement(h, self, stmt) ==
    IF stmt.kind = "StructDeclaration"
    THEN LET t == Struct(stmt.name, stmt.fields)
             r == add_type(h, self, t)
         IN  IF r.ret.tag = "Err"
             THEN [heap |-> r.heap,
                   typed |-> [kind |-> stmt.kind, type |-> Unknown],
                   diags |-> <<r.ret.msg>>]
             ELSE [heap |-> r.heap,
                   typed |-> [kind |-> stmt.kind, type |-> t],
                   diags |-> <<>>]
    ELSE IF stmt.ok
         THEN [heap |-> h, typed |-> [kind |-> stmt.kind, type |-> I32],
               diags |-> <<>>]
         ELSE [heap |-> h, typed |-> [kind |-> stmt.kind, type |-> Unknown],
               diags |-> <<"TypeMismatch">>]

\* What statements::check_type returns once every statement is elaborated.
check_type_return(typedStatements) == OkOf(typedStatements)

\* A variant of the `?` below that goes on to elaboration with whatever was
\* discovered before the error.
discovery_question_mark_ignores_error(r, acc) ==
    [returns |-> FALSE, value |-> acc]

\* `statements::discover_user_defined_types(&program)?`: on Err the function
\* returns that Err; on Ok the list is bound to discovered_types.  r is the
\* Result of the discovery pass, acc the records found before it ended.
discovery_question_mark(r, acc) ==
    IF r.tag = "Err"
    THEN [returns |-> TRUE, value |-> ErrOf(r.msg)]
    ELSE [returns |-> FALSE, value |-> r.val]

\* The tail expression of create_typed_ast: the value of
\* statements::check_type(&program, &discovered_types, type_environment).
create_typed_ast_tail(r) == r

\* The root environment handed to create_typed_ast.
RootEnv == 1

TcInit ==
    /\ frames = [i \in {RootEnv} |-> new]
    /\ birth = [i \in {RootEnv} |-> [j \in {} |-> new]]
    /\ last = NoCall
    /\ ops = 0
    /\ program \in Programs
    /\ pc = "start"
    /\ dpos = 0
    /\ discovered = <<>>
    /\ given = <<>>
    /\ epos = 0
    /\ typed = <<>>
    /\ diagnostics = <<>>
    /\ checked = NoResult
    /\ result = NoResult
    /\ RdIdle
    /\ PmIdle
    /\ AsIdle
    /\ ScIdle

\* The call of statements::discover_user_defined_types.
DiscoverStart ==
    /\ pc = "start"
    /\ pc' = "discover"
    /\ dpos' = 1
    /\ UNCHANGED <<program, discovered, given, epos, typed, diagnostics,
                   checked, result, frames>>
    /\ UNCHANGED <<birth, last, ops>>
    /\ UNCHANGED auxVars

\* The scan records the statement at dpos.
DiscoverStatement ==
    /\ pc = "discover"
    /\ dpos <= Len(program)
    /\ discover_statement(discovered, program[dpos]).tag = "Ok"
    /\ discovered' = discover_statement(discovered, program[dpos]).val
    /\ dpos' = dpos + 1
    /\ UNCHANGED <<program, pc, given, epos, typed, diagnostics, checked,
                   result, frames>>
    /\ UNCHANGED <<birth, last, ops>>
    /\ UNCHANGED auxVars

\* The scan ends, at the end of the program or with an error, and the `?`
\* either returns from create_typed_ast or hands the list to check_type.
DiscoverReturn ==
    /\ pc = "discover"
    /\ LET r == IF dpos <= Len(program)
                THEN discover_statement(discovered, program[dpos])
                ELSE OkOf(discovered)
           q == discovery_question_mark(r, discovered)
       IN  /\ dpos > Len(program) \/ r.tag = "Err"
           /\ IF q.returns
              THEN /\ pc' = "done"
                   /\ result' = q.value
                   /\ UNCHANGED <<given, epos>>
              ELSE /\ pc' = "check"
                   /\ given' = q.value
                   /\ epos' = 1
                   /\ UNCHANGED result
    /\ UNCHANGED <<program, dpos, discovered, typed, diagnostics, checked,
                   frames>>
    /\ UNCHANGED <<birth, last, ops>>
    /\ UNCHANGED auxVars

\* statements::check_type elaborates the statement at epos.
CheckStatement ==
    /\ pc = "check"
    /\ epos <= Len(program)
    /\ LET c == check_statement(frames, RootEnv, program[epos])
       IN  /\ frames' = c.heap
           /\ typed' = Append(typed, c.typed)
           /\ diagnostics' = diagnostics \o c.diags
    /\ epos' = epos + 1
    /\ UNCHANGED <<program, pc, dpos, discovered, given, checked, result>>
    /\ UNCHANGED <<birth, last, ops>>
    /\ UNCHANGED auxVars

\* statements::check_type returns and create_typed_ast returns its value.
CheckReturn ==
    /\ pc = "check"
    /\ epos > Len(program)
    /\ checked' = check_type_return(typed)
    /\ result' = create_typed_ast_tail(check_type_return(typed))
    /\ pc' = "done"
    /\ UNCHANGED <<program, dpos, discovered, given, epos, typed, diagnostics,
                   frames>>
    /\ UNCHANGED <<birth, last, ops>>
    /\ UNCHANGED auxVars

TcNext ==
    \/ DiscoverStart
    \/ DiscoverStatement
    \/ DiscoverReturn
    \/ CheckStatement
    \/ CheckReturn

(***************************************************************************)
(* display.rs: Indent, the stack of is-last-sibling bits.  A rendered       *)
(* string is modelled as the sequence of the pieces pushed onto it: the     *)
(* glyphs, the line break and the texts between them.                       *)
(***************************************************************************)
\* U+251C U+2500, the connector of a child that has later siblings.
Tee == "|-"
\* U+2570 U+2500, the connector of the last child of a level.
Corner == "L-"
\* U+2506 and a space, drawn under a level that is still open.
Pipe == "| "
\* Two spaces, drawn under a level that has ended.
Blank == "  "

Newline == "\n"

Glyphs == {Tee, Corner}

Prefixes == {Pipe, Blank}

\* Indent::new()
Indent_new == <<>>

\* self.levels.push(false)
increase(levels) == Append(levels, FALSE)

\* self.levels.push(true)
increase_leaf(levels) == Append(levels, TRUE)

\* self.levels.pop(): nothing happens on an empty vector.
decrease(levels) ==
    IF Len(levels) = 0 THEN levels ELSE SubSeq(levels, 1, Len(levels) - 1)

\* A variant of end_current that marks the outermost level.
end_current_marks_first(levels) ==
    IF Len(levels) = 0 THEN levels ELSE [levels EXCEPT ![1] = TRUE]

\* end_current: the innermost level becomes an ended one.
end_current(levels) ==
    IF Len(levels) = 0 THEN levels ELSE [levels EXCEPT ![Len(levels)] = TRUE]

\* The prefix dash and dash_end draw: one piece for every level but the
\* innermost (self.levels.iter().rev().skip(1).rev()).
prefix(levels) ==
    [i \in 1..(IF Len(levels) = 0 THEN 0 ELSE Len(levels) - 1) |->
        IF levels[i] THEN Blank ELSE Pipe]

\* A variant of dash that draws the connector of the innermost level.
dash_follows_innermost(levels) ==
    Append(prefix(levels),
           IF Len(levels) > 0 /\ levels[Len(levels)] THEN Corner ELSE Tee)

\* dash: the prefix, then always the Tee.
dash(levels) == Append(prefix(levels), Tee)

\* dash_end: the prefix, then the glyph of the innermost level, if there is
\* one (self.levels.last().map(..)).
dash_end(levels) ==
    IF Len(levels) = 0 THEN prefix(levels)
    ELSE Append(prefix(levels), IF levels[Len(levels)] THEN Corner ELSE Tee)

(***************************************************************************)
(* The typed IR nodes that are rendered.  Every node is a record with a    *)
(* kind; a type is written with its Display, a string.                     *)
(***************************************************************************)
\* TypeIdentifier::Type(name)
TypeIdentifier_Type(name) == [kind |-> "TypeIdentifier::Type", name |-> name]

\* type_checker::ast::StructField
StructField(identifier, type_, mutable) ==
    [kind |-> "StructField", identifier |-> identifier, type_ |-> type_,
     mutable |-> mutable]

\* type_checker::ast::EnumMemberField
EnumMemberField(identifier, type_) ==
    [kind |-> "EnumMemberField", identifier |-> identifier, type_ |-> type_]

\* type_checker::ast::EnumMember
EnumMember(type_, fields) ==
    [kind |-> "EnumMember", type_ |-> type_, fields |-> fields]

\* Option<T>
NoneOf == [kind |-> "Option::None"]

Some(v) == [kind |-> "Option::Some", v |-> v]

\* A String that is rendered through its IndentDisplay.
Text(t) == [kind |-> "String", text |-> t]

\* TypedStatement
TypedStatement_None == [kind |-> "TypedStatement::None"]

TypedStatement_Program(statements) ==
    [kind |-> "TypedStatement::Program", statements |-> statements]

TypedStatement_StructDeclaration(type_identifier, where_clause, fields, type_) ==
    [kind |-> "TypedStatement::StructDeclaration",
     type_identifier |-> type_identifier, where_clause |-> where_clause,
     fields |-> fields, type_ |-> type_]

TypedStatement_EnumDeclaration(type_identifier, shared_fields, members, type_) ==
    [kind |-> "TypedStatement::EnumDeclaration",
     type_identifier |-> type_identifier, shared_fields |-> shared_fields,
     members |-> members, type_ |-> type_]

TypedStatement_Semi(e) == [kind |-> "TypedStatement::Semi", e |-> e]

TypedStatement_Expression(e) == [kind |-> "TypedStatement::Expression", e |-> e]

\* TypedExpression
TypedExpression_Literal(l) == [kind |-> "TypedExpression::Literal", l |-> l]

\* The arguments of a call of indent_display_vec.
Vec(vec, parent_type_name, item_field_name) ==
    [kind |-> "Vec", vec |-> vec, parent_type_name |-> parent_type_name,
     item_field_name |-> item_field_name]

TypedExpression_Loop(body, type_) ==
    [kind |-> "TypedExpression::Loop", body |-> body, type_ |-> type_]

TypedExpression_Block(statements, type_) ==
    [kind |-> "TypedExpression::Block", statements |-> statements,
     type_ |-> type_]

\* type_checker::ast::Literal; a scalar carries the text of its to_string().
Literal_Void == [kind |-> "Literal::Void"]

Literal_Unit == [kind |-> "Literal::Unit"]

Literal_Int(v) == [kind |-> "Literal::Int", v |-> v]

Literal_Bool(b) == [kind |-> "Literal::Bool", v |-> b]

Literal_Enum(type_annotation, member, field_initializers, type_) ==
    [kind |-> "Literal::Enum", type_annotation |-> type_annotation,
     member |-> member, field_initializers |-> field_initializers,
     type_ |-> type_]

\* type_checker::ast::EnumMemberFieldInitializers; Named holds a container
\* of (identifier, initializer) pairs, kept as the sequence of its pairs in
\* the order in which the iter() of this container yields them.
EnumMemberFieldInitializers_None == [kind |-> "EnumMemberFieldInitializers::None"]

EnumMemberFieldInitializers_Named(field_initializers) ==
    [kind |-> "EnumMemberFieldInitializers::Named",
     field_initializers |-> field_initializers]

\* decision_tree::Decision, Case, Variable and Pattern
Decision_Success(expression, type_) ==
    [kind |-> "Decision::Success", expression |-> expression, type_ |-> type_]

Decision_Failure(error_message) ==
    [kind |-> "Decision::Failure", error_message |-> error_message]

Decision_Guard(condition, consequence, alternative, type_) ==
    [kind |-> "Decision::Guard", condition |-> condition,
     consequence |-> consequence, alternative |-> alternative, type_ |-> type_]

Decision_Switch(variable, cases, fallback, type_) ==
    [kind |-> "Decision::Switch", variable |-> variable, cases |-> cases,
     fallback |-> fallback, type_ |-> type_]

Case(pattern, arguments, body) ==
    [kind |-> "Case", pattern |-> pattern, arguments |-> arguments,
     body |-> body]

Variable(identifier, type_) ==
    [kind |-> "Variable", identifier |-> identifier, type_ |-> type_]

\* Pattern::Wildcard, Pattern::Bool(b), ...: rendered as their text.
Pattern(text) == [kind |-> "Pattern", text |-> text]

(***************************************************************************)
(* What a call of indent_display yields: the pieces of the returned        *)
(* String and the Indent after the call, or ok = FALSE when the call       *)
(* panics.  cfg holds what is there at a call besides the node and the     *)
(* Indent: the build profile, and pass, the number of this rendering of    *)
(* the node (1 for the first, 2 for the one after it).                     *)
(***************************************************************************)
Returned(pieces, levels) == [out |-> pieces, levels |-> levels, ok |-> TRUE]

Panicked(levels) == [out |-> <<>>, levels |-> levels, ok |-> FALSE]

\* result.push_str(format!(.., child.indent_display(indent))): the pieces
\* written before the child, the child c, the pieces written after it.
push_child(r, before, c, after) ==
    IF ~r.ok THEN r
    ELSE IF ~c.ok THEN Panicked(c.levels)
    ELSE Returned(r.out \o before \o c.out \o after, c.levels)

\* a - b on usize.  With overflow checks (the debug profile) a negative
\* difference panics; without them (the release profile) it wraps to
\* 2^64 + a - b, kept as the negative number with the tag Wrapped.
usize_sub(a, b, profile) ==
    IF a >= b THEN [tag |-> "Value", v |-> a - b]
    ELSE IF profile = "debug" THEN [tag |-> "Panic", v |-> 0]
    ELSE [tag |-> "Wrapped", v |-> a - b]

\* i < x for an index i and a usize x computed by usize_sub: a wrapped
\* difference is above every index.
usize_lt(i, x) == IF x.tag = "Wrapped" THEN TRUE ELSE i < x.v

\* The identifiers a Named initializer container can hold.
Identifiers == {"a", "b"}

\* A variant of iter for a container whose order is not kept from one
\* rendering to the next: a later pass yields the pairs in reverse.
iter_in_another_order(field_initializers, pass) ==
    IF pass = 1 THEN field_initializers
    ELSE [i \in 1..Len(field_initializers) |->
             field_initializers[Len(field_initializers) + 1 - i]]

\* field_initializers.iter(): the pairs of the container in the order of
\* the container, which is the same in every pass over it.
iter(field_initializers, pass) ==
    [i \in 1..Len(field_initializers) |-> field_initializers[i]]

RECURSIVE indent_display(_, _, _)
RECURSIVE for_each_item(_, _, _, _, _, _)
RECURSIVE struct_fields_from(_, _, _, _)
RECURSIVE program_from(_, _, _, _)
RECURSIVE indent_display_vec(_, _, _, _, _)

\* The loop that draws every item but the last with dash and a comma, and
\* the last with end_current and dash_end:
\*     for (i, item) in items.iter().enumerate() {
\*         if i < len - 1 { "\n{dash}{label}{item}," }
\*         else { indent.end_current(); "\n{dash_end}{label}{item}" } }
\* i is the position (from 1) of the item drawn next, labels[i] what is
\* written before it, len the length the bound is computed from.
for_each_item(items, labels, i, len, r, cfg) ==
    IF ~r.ok \/ i > Len(items) THEN r
    ELSE LET bound == usize_sub(len, 1, cfg.build)
         IN  IF bound.tag = "Panic" THEN Panicked(r.levels)
             ELSE IF usize_lt(i - 1, bound)
             THEN for_each_item(items, labels, i + 1, len,
                      push_child(r, <<Newline>> \o dash(r.levels) \o labels[i],
                                 indent_display(items[i], r.levels, cfg),
                                 <<",">>),
                      cfg)
             ELSE LET ended == end_current(r.levels)
                  IN  for_each_item(items, labels, i + 1, len,
                          push_child(r, <<Newline>> \o dash_end(ended) \o labels[i],
                                     indent_display(items[i], ended, cfg),
                                     <<>>),
                          cfg)

\* The fields of a struct declaration:
\*     for field in fields.iter() {
\*         indent.end_current(); "\n{dash_end}{field}" }
struct_fields_from(fields, i, r, cfg) ==
    IF ~r.ok \/ i > Len(fields) THEN r
    ELSE LET ended == end_current(r.levels)
         IN  struct_fields_from(fields, i + 1,
                 push_child(r, <<Newline>> \o dash_end(ended),
                            indent_display(fields[i], ended, cfg), <<>>),
                 cfg)

\* The statements of a program, two line breaks between them.
program_from(statements, i, r, cfg) ==
    IF ~r.ok \/ i > Len(statements) THEN r
    ELSE program_from(statements, i + 1,
             push_child(r, <<>>, indent_display(statements[i], r.levels, cfg),
                        IF usize_lt(i - 1, usize_sub(Len(statements), 1, cfg.build))
                        THEN <<Newline, Newline>> ELSE <<>>),
             cfg)

\* The same label before every item of a vector.
Repeat(label, n) == [i \in 1..n |-> label]

\* A variant of indent_display_vec whose loop takes no item for the last.
indent_display_vec_never_ends(vec, parent_type_name, item_field_name, levels, cfg) ==
    LET r == for_each_item(vec, Repeat(<<item_field_name>>, Len(vec)), 1,
                           Len(vec) + 1,
                           Returned(<<parent_type_name>>, increase(levels)), cfg)
    IN  IF r.ok THEN Returned(r.out, decrease(r.levels)) ELSE r

\* indent_display_vec(vec, parent_type_name, item_field_name, indent);
\* parent_type_name comes with its angle brackets, item_field_name with
\* its colon and space.
indent_display_vec(vec, parent_type_name, item_field_name, levels, cfg) ==
    LET r == for_each_item(vec, Repeat(<<item_field_name>>, Len(vec)), 1, Len(vec),
                           Returned(<<parent_type_name>>, increase(levels)), cfg)
    IN  IF r.ok THEN Returned(r.out, decrease(r.levels)) ELSE r

\* Pieces pushed with no child in them.
push_str(r, pieces) == IF r.ok THEN Returned(r.out \o pieces, r.levels) ELSE r

\* The last statement of a renderer: indent.decrease(); result
pop_and_return(r) == IF r.ok THEN Returned(r.out, decrease(r.levels)) ELSE r

\* impl IndentDisplay for TypeIdentifier, TypeIdentifier::Type
display_TypeIdentifier(n, levels, cfg) ==
    LET pushed == increase_leaf(levels)
    IN  Returned(<<"<type name>", ": ", n.name, Newline>>
                 \o dash_end(pushed) \o <<"type: ", n.name>>,
                 decrease(pushed))

\* impl IndentDisplay for type_checker::ast::StructField
display_StructField(n, levels, cfg) ==
    LET pushed == increase_leaf(levels)
    IN  Returned(<<"<struct field>", " ", n.identifier, ": ", n.type_, Newline>>
                 \o dash_end(pushed) \o <<"mutable: ", n.mutable>>,
                 decrease(pushed))

\* impl IndentDisplay for type_checker::ast::EnumMemberField
display_EnumMemberField(n, levels, cfg) ==
    LET pushed == increase_leaf(levels)
    IN  Returned(<<"<enum member field>", ": ", n.type_, Newline>>
                 \o dash(pushed) \o <<"identifier: ", n.identifier, Newline>>
                 \o dash_end(pushed) \o <<"type: ", n.type_>>,
                 decrease(pushed))

\* impl IndentDisplay for type_checker::ast::EnumMember
display_EnumMember(n, levels, cfg) ==
    pop_and_return(
        for_each_item(n.fields, Repeat(<<>>, Len(n.fields)), 1, Len(n.fields),
                      Returned(<<"<enum member>", " ", n.type_>>, increase(levels)),
                      cfg))

\* TypedStatement::StructDeclaration
display_StructDeclaration(n, levels, cfg) ==
    LET r0 == Returned(<<"<struct declaration>", " ", n.type_, Newline>>,
                       increase(levels))
        r1 == push_child(r0, dash(r0.levels) \o <<"type_name: ">>,
                         indent_display(n.type_identifier, r0.levels, cfg), <<>>)
        r2 == IF n.where_clause.kind = "Option::Some"
              THEN push_child(r1, <<Newline>> \o dash(r1.levels) \o <<"where_clause: ">>,
                              indent_display_vec(n.where_clause.v,
                                                 "<generic constraints>",
                                                 "constraint: ", r1.levels, cfg),
                              <<>>)
              ELSE push_str(r1, <<Newline>> \o dash(r1.levels)
                                \o <<"where_clause: ", "None">>)
    IN  pop_and_return(struct_fields_from(n.fields, 1, r2, cfg))

\* TypedStatement::EnumDeclaration: the loop over the shared fields takes
\* its bound from members.len().
display_EnumDeclaration(n, levels, cfg) ==
    LET r0 == Returned(<<"<enum declaration>", " ", n.type_, Newline>>,
                       increase(levels))
        r1 == push_child(r0, dash(r0.levels) \o <<"type_name: ">>,
                         indent_display(n.type_identifier, r0.levels, cfg), <<>>)
        r2 == for_each_item(n.shared_fields, Repeat(<<>>, Len(n.shared_fields)),
                            1, Len(n.members), r1, cfg)
        r3 == for_each_item(n.members, Repeat(<<>>, Len(n.members)),
                            1, Len(n.members), r2, cfg)
    IN  pop_and_return(r3)

\* TypedStatement::Semi(e)
display_Semi(n, levels, cfg) ==
    LET ended == end_current(increase(levels))
    IN  pop_and_return(
            push_child(Returned(<<"<semi>", ": ", "void", Newline>>, ended),
                       dash_end(ended) \o <<"statement: ">>,
                       indent_display(n.e, ended, cfg), <<>>))

\* TypedExpression::Block
display_Block(n, levels, cfg) ==
    pop_and_return(
        for_each_item(n.statements, Repeat(<<>>, Len(n.statements)), 1,
                      Len(n.statements),
                      Returned(<<"<block>", ": ", n.type_>>, increase(levels)),
                      cfg))

\* TypedExpression::Loop: the header is not followed by a line break.
display_Loop(n, levels, cfg) ==
    LET pushed == end_current(increase(levels))
        r0 == Returned(<<"<loop>", ": ", n.type_>>, pushed)
    IN  pop_and_return(
            push_child(r0, dash_end(pushed) \o <<"body: ">>,
                       indent_display(n.body, pushed, cfg), <<>>))

\* type_checker::ast::Literal::Enum
display_Literal_Enum(n, levels, cfg) ==
    LET pushed == increase_leaf(levels)
        r0 == Returned(<<"<enum literal>", ": ", n.type_, Newline>>, pushed)
        r1 == push_child(r0, dash(pushed) \o <<"type_name: ">>,
                         indent_display(n.type_annotation, pushed, cfg),
                         <<Newline>>)
        r2 == push_str(r1, dash_end(r1.levels) \o <<"member: ", n.member, Newline>>)
        inner == increase_leaf(r2.levels)
        r3 == push_child(r2, dash_end(inner),
                         indent_display(n.field_initializers, inner, cfg), <<>>)
    IN  pop_and_return(pop_and_return(r3))

\* type_checker::ast::EnumMemberFieldInitializers::Named
display_Named(n, levels, cfg) ==
    LET pairs == iter(n.field_initializers, cfg.pass)
    IN  pop_and_return(
            for_each_item([i \in 1..Len(pairs) |-> pairs[i][2]],
                          [i \in 1..Len(pairs) |-> <<pairs[i][1], ": ">>],
                          1, Len(pairs),
                          Returned(<<"<named field initializer>">>, increase(levels)),
                          cfg))

\* impl IndentDisplay for Decision
display_Decision(n, levels, cfg) ==
    LET r0 == Returned(<<"<decision>">>, increase(levels))
        ended == end_current(r0.levels)
        body ==
          CASE n.kind = "Decision::Success" ->
                 push_child(
                     push_str(r0, <<": ", n.type_, Newline>> \o dash(r0.levels)
                                  \o <<"variant: ", "Success">>),
                     <<Newline>> \o dash_end(ended) \o <<"expression: ">>,
                     indent_display(n.expression, ended, cfg), <<>>)
            [] n.kind = "Decision::Failure" ->
                 push_child(
                     push_str(r0, <<": ", "Unknown", Newline>> \o dash(r0.levels)
                                  \o <<"variant: ", "Failure">>),
                     <<Newline>> \o dash_end(ended) \o <<"error_message: ">>,
                     indent_display(n.error_message, ended, cfg), <<>>)
            [] n.kind = "Decision::Guard" ->
                 LET g0 == push_str(r0, <<": ", n.type_, Newline>> \o dash(r0.levels)
                                        \o <<"variant: ", "Guard">>)
                     g1 == push_child(g0, <<Newline>> \o dash(g0.levels)
                                          \o <<"condition: ">>,
                                      indent_display(n.condition, g0.levels, cfg),
                                      <<>>)
                     g2 == push_child(g1, <<Newline>> \o dash(g1.levels)
                                          \o <<"consequence: ">>,
                                      indent_display(n.consequence, g1.levels, cfg),
                                      <<>>)
                     last_ == end_current(g2.levels)
                 IN  push_child(g2, <<Newline>> \o dash_end(last_)
                                    \o <<"alternative: ">>,
                                indent_display(n.alternative, last_, cfg), <<>>)
            [] n.kind = "Decision::Switch" ->
                 LET s0 == push_str(r0, <<": ", n.type_, Newline>> \o dash(r0.levels)
                                        \o <<"variant: ", "Switch">>)
                     s1 == push_child(s0, <<Newline>> \o dash(s0.levels)
                                          \o <<"variable: ">>,
                                      indent_display(n.variable, s0.levels, cfg),
                                      <<>>)
                     s2 == push_child(s1, <<Newline>> \o dash(s1.levels),
                                      indent_display_vec(n.cases, "<cases>", "case: ",
                                                         s1.levels, cfg),
                                      <<>>)
                     last_ == end_current(s2.levels)
                 IN  push_child(s2, <<Newline>> \o dash_end(last_)
                                    \o <<"fallback: ">>,
                                indent_display(n.fallback, last_, cfg), <<>>)
    IN  pop_and_return(body)

\* impl IndentDisplay for Case
display_Case(n, levels, cfg) ==
    LET r0 == Returned(<<"<case>">>, increase(levels))
        r1 == push_child(r0, <<Newline>> \o dash(r0.levels) \o <<"pattern: ">>,
                         indent_display(n.pattern, r0.levels, cfg), <<>>)
        r2 == push_child(r1, <<Newline>> \o dash(r1.levels),
                         indent_display_vec(n.arguments, "<arguments>", "argument: ",
                                            r1.levels, cfg),
                         <<>>)
        ended == end_current(r2.levels)
    IN  pop_and_return(
            push_child(r2, <<Newline>> \o dash_end(ended) \o <<"decision: ">>,
                       indent_display(n.body, ended, cfg), <<>>))

\* impl IndentDisplay for Variable
display_Variable(n, levels, cfg) ==
    LET pushed == increase_leaf(levels)
        r0 == Returned(<<"<variable>", ": ", n.type_>>, pushed)
        r1 == push_child(r0, <<Newline>> \o dash(pushed) \o <<"name: ">>,
                         indent_display(Text(n.identifier), pushed, cfg), <<>>)
    IN  pop_and_return(
            push_str(r1, <<Newline>> \o dash_end(r1.levels) \o <<"type_: ", n.type_>>))

\* type_checker::ast::Literal, the scalar variants: "void", "unit", or the
\* to_string() of the value.
display_Literal_scalar(n, levels, cfg) ==
    Returned(<<IF n.kind = "Literal::Void" THEN "void"
               ELSE IF n.kind = "Literal::Unit" THEN "unit"
               ELSE n.v>>, levels)

\* fn indent_display(&self, indent: &mut Indent) -> String, by the kind of
\* the node.
indent_display(n, levels, cfg) ==
    CASE n.kind = "TypedStatement::None" -> Returned(<<>>, levels)
      [] n.kind = "TypedStatement::Program" ->
            program_from(n.statements, 1, Returned(<<>>, levels), cfg)
      [] n.kind = "TypedStatement::StructDeclaration" ->
            display_StructDeclaration(n, levels, cfg)
      [] n.kind = "TypedStatement::EnumDeclaration" ->
            display_EnumDeclaration(n, levels, cfg)
      [] n.kind = "TypedStatement::Semi" -> display_Semi(n, levels, cfg)
      [] n.kind = "TypedStatement::Expression" -> indent_display(n.e, levels, cfg)
      [] n.kind = "TypedExpression::Literal" -> indent_display(n.l, levels, cfg)
      [] n.kind = "TypedExpression::Block" -> display_Block(n, levels, cfg)
      [] n.kind = "TypedExpression::Loop" -> display_Loop(n, levels, cfg)
      [] n.kind \in {"Literal::Void", "Literal::Unit", "Literal::Int",
                     "Literal::Bool"} -> display_Literal_scalar(n, levels, cfg)
      [] n.kind = "Literal::Enum" -> display_Literal_Enum(n, levels, cfg)
      [] n.kind = "EnumMemberFieldInitializers::None" -> Returned(<<"">>, levels)
      [] n.kind = "EnumMemberFieldInitializers::Named" ->
            display_Named(n, levels, cfg)
      [] n.kind = "TypeIdentifier::Type" -> display_TypeIdentifier(n, levels, cfg)
      [] n.kind = "StructField" -> display_StructField(n, levels, cfg)
      [] n.kind = "EnumMemberField" -> display_EnumMemberField(n, levels, cfg)
      [] n.kind = "EnumMember" -> display_EnumMember(n, levels, cfg)
      [] n.kind \in {"Decision::Success", "Decision::Failure", "Decision::Guard",
                     "Decision::Switch"} -> display_Decision(n, levels, cfg)
      [] n.kind = "Case" -> display_Case(n, levels, cfg)
      [] n.kind = "Variable" -> display_Variable(n, levels, cfg)
      [] n.kind = "Pattern" -> Returned(<<n.text>>, levels)
      [] n.kind = "Option::None" -> Returned(<<"None">>, levels)
      [] n.kind = "Option::Some" -> indent_display(n.v, levels, cfg)
      [] n.kind = "String" -> Returned(<<n.text>>, levels)
      [] n.kind = "Vec" ->
            indent_display_vec(n.vec, n.parent_type_name, n.item_field_name,
                               levels, cfg)

(***************************************************************************)
(* The renderer as a state machine: one call of indent_display on a node,  *)
(* with an Indent that holds the levels of the caller.                     *)
(*   node   : the node that is rendered                                    *)
(*   entry  : the levels of the Indent when indent_display is called       *)
(*   build  : the profile the crate is built with                          *)
(*   indent : the levels of the Indent now                                 *)
(*   out    : the pieces of the String indent_display returned             *)
(*   again  : what the renderings of the node after the first returned,    *)
(*            each started from an Indent equal to entry                   *)
(*   rstate : "ready", "returned" or "panicked"                            *)
(***************************************************************************)
PointId == TypeIdentifier_Type("Point")

ShapeId == TypeIdentifier_Type("Shape")

StructFields == {StructField("x", "i32", "false"), StructField("y", "i32", "true")}

WhereClauses == {NoneOf, Some(<<>>)}

StructDeclarations ==
    {TypedStatement_StructDeclaration(PointId, w, f, "Point") :
        w \in WhereClauses, f \in SeqsUpTo(StructFields, MaxFields)}

SharedFields == {EnumMemberField("id", "i32")}

Members == {EnumMember("Circle", <<>>),
            EnumMember("Square", <<EnumMemberField("s", "f64")>>)}

EnumDeclarations ==
    {TypedStatement_EnumDeclaration(ShapeId, sh, m, "Shape") :
        sh \in SeqsUpTo(SharedFields, MaxFields), m \in SeqsUpTo(Members, MaxMembers)}

One == TypedExpression_Literal(Literal_Int("1"))

ScalarLiterals == {Literal_Void, Literal_Unit, Literal_Int("5"), Literal_Bool("true")}

\* The containers of initializers: every sequence of pairs in which no
\* identifier comes twice.
InitializerMaps ==
    {m \in SeqsUpTo(Identifiers \X {One}, Cardinality(Identifiers)) :
        \A i \in 1..Len(m), j \in 1..Len(m) : m[i][1] = m[j][1] => i = j}

EnumLiterals ==
    {Literal_Enum(ShapeId, "Square", i, "Shape") :
        i \in {EnumMemberFieldInitializers_None}
              \cup {EnumMemberFieldInitializers_Named(m) : m \in InitializerMaps}}

BlockStatements == {TypedStatement_Expression(One),
                    TypedStatement_Semi(TypedExpression_Literal(Literal_Unit))}

Blocks == {TypedExpression_Block(b, "i32") : b \in SeqsUpTo(BlockStatements, MaxItems)}

Loops == {TypedExpression_Loop(b, "()") : b \in Blocks}

TypedExpressions ==
    {TypedExpression_Literal(l) : l \in ScalarLiterals \cup EnumLiterals}
    \cup Blocks \cup Loops

Succeed == Decision_Success(One, "i32")

Fail == Decision_Failure(Text("false not covered"))

Cases == {Case(Pattern("true"), <<>>, Succeed),
          Case(Pattern("false"), <<Variable("w", "bool")>>, Succeed)}

Decisions ==
    {Succeed, Fail, Decision_Guard(One, Succeed, Fail, "i32")}
    \cup {Decision_Switch(Variable("v", "bool"), c, f, "i32") :
            c \in SeqsUpTo(Cases, MaxItems), f \in {NoneOf, Some(Fail)}}

Arguments == {Variable("v", "bool"), Variable("w", "bool")}

Vectors ==
    {Vec(v, "<arguments>", "argument: ") : v \in SeqsUpTo(Arguments, MaxVec)}
    \cup {Vec(c, "<cases>", "case: ") : c \in SeqsUpTo(Cases, MaxVec)}

ProgramStatements ==
    {TypedStatement_None, TypedStatement_Expression(One),
     TypedStatement_Semi(One),
     TypedStatement_StructDeclaration(PointId, NoneOf,
         <<StructField("x", "i32", "false"), StructField("y", "i32", "true")>>,
         "Point")}

TypedStatements ==
    StructDeclarations \cup EnumDeclarations
    \cup {TypedStatement_Program(p) : p \in SeqsUpTo(ProgramStatements, MaxItems)}
    \cup ProgramStatements

Profiles == {"debug", "release"}

\* No environment exists and no call is under way.
EnvIdle ==
    /\ frames = [i \in {} |-> new]
    /\ birth = [i \in {} |-> frames]
    /\ last = NoCall
    /\ ops = 0
    /\ TcIdle
    /\ checked = NoResult
    /\ result = NoResult

RdInit ==
    /\ EnvIdle
    /\ PmIdle
    /\ AsIdle
    /\ ScIdle
    /\ node \in TypedStatements \cup TypedExpressions \cup Decisions \cup Vectors
    /\ entry \in SeqsUpTo(BOOLEAN, MaxLevels)
    /\ build \in Profiles
    /\ indent = entry
    /\ out = <<>>
    /\ again = <<>>
    /\ rstate = "ready"

\* node.indent_display(&mut indent), the first rendering of the node.
Render ==
    /\ rstate = "ready"
    /\ LET r == indent_display(node, entry, [build |-> build, pass |-> 1])
       IN  /\ rstate' = IF r.ok THEN "returned" ELSE "panicked"
           /\ out' = r.out
           /\ indent' = r.levels
    /\ UNCHANGED <<node, entry, build, again>>
    /\ UNCHANGED <<envVars, tcVars, pmVars, asVars, scVars>>

\* node.indent_display(&mut fresh) once more after the first rendering has
\* returned, on the same node and with an Indent that holds the levels the
\* first one was given.
RenderAgain ==
    /\ rstate = "returned"
    /\ again = <<>>
    /\ LET q == indent_display(node, entry, [build |-> build, pass |-> 2])
       IN  again' = <<[ok |-> q.ok, out |-> q.out]>>
    /\ UNCHANGED <<node, entry, build, indent, out, rstate>>
    /\ UNCHANGED <<envVars, tcVars, pmVars, asVars, scVars>>

\* impl IndentDisplay for TypedStatement
RenderStatement == node \in TypedStatements /\ Render

\* impl IndentDisplay for TypedExpression
RenderExpression == node \in TypedExpressions /\ Render

\* impl IndentDisplay for Decision
RenderDecision == node \in Decisions /\ Render

\* indent_display_vec
RenderVec == node \in Vectors /\ Render

RdNext ==
    \/ RenderVec
    \/ RenderStatement
    \/ RenderExpression
    \/ RenderDecision
    \/ RenderAgain

(***************************************************************************)
(* The pattern compiler: a match over a Bool, or over a struct of two Bool *)
(* fields, compiled into a Decision tree.  A row is an arm: its number     *)
(* (which stands for its expression) and one pattern per column.           *)
(*   arms   : the arms of the match, in source order                       *)
(*   tree   : the compiled Decision                                        *)
(*   value  : a value of the scrutinee, one Bool per column                *)
(*   leaf   : the leaf of the tree that value reaches                      *)
(*   mstate : "parsed", "compiled" or "evaluated"                          *)
(***************************************************************************)
Wildcard == "_"

\* Pattern::Variable(x) matches everything and binds x.
IsWildcard(p) == p \in {Wildcard, "x"}

BoolValues == <<"true", "false">>

Row(arm, pats) == [arm |-> arm, pats |-> pats]

\* The rows of a match on a Bool, and on a struct of two Bool fields.
BoolRows == {<<p>> : p \in {Wildcard, "x", "true", "false"}}

PairRows == {<<p, q>> : p \in {Wildcard, "true", "false"},
                        q \in {Wildcard, "true", "false"}}

\* The arm lists: every arm list has rows of one width.
ArmLists ==
    {a \in SeqsUpTo(BoolRows, MaxArms) \cup SeqsUpTo(PairRows, MaxArms) : a # <<>>}

\* The frontier the compilation starts with: one row per arm.
Frontier(armList) == [i \in 1..Len(armList) |-> Row(i, armList[i])]

\* The leftmost column that is not all wildcards; 0 if there is none.
LeftmostColumn(rows) ==
    LET width == Len(rows[1].pats)
        open == {c \in 1..width : \E i \in 1..Len(rows) : ~IsWildcard(rows[i].pats[c])}
    IN  IF open = {} THEN 0 ELSE Min(open)

\* The distinct heads of column c, in pattern order.
RECURSIVE Heads(_, _, _)
Heads(rows, c, seen) ==
    IF rows = <<>> THEN <<>>
    ELSE LET h == Head(rows).pats[c]
         IN  IF IsWildcard(h) \/ h \in seen THEN Heads(Tail(rows), c, seen)
             ELSE <<h>> \o Heads(Tail(rows), c, seen \cup {h})

\* The rows that can still match once column c is known to hold h; the
\* column is consumed.
Specialize(rows, c, h) ==
    LET Keeps(r) == IsWildcard(r.pats[c]) \/ r.pats[c] = h
        kept == SelectSeq(rows, Keeps)
    IN  [i \in 1..Len(kept) |-> Row(kept[i].arm, [kept[i].pats EXCEPT ![c] = Wildcard])]

\* The rows that match whatever column c holds.
DefaultRows(rows, c) ==
    LET Keeps(r) == IsWildcard(r.pats[c])
    IN  SelectSeq(rows, Keeps)

\* The Bool values that are no head of the column.
MissingHeads(heads) ==
    LET Missing(v) == \A k \in 1..Len(heads) : heads[k] # v
    IN  SelectSeq(BoolValues, Missing)

\* A variant of the choice among the rows that all match: the last arm.
ChosenArm_last(rows) == rows[Len(rows)].arm

\* Every remaining pattern is a wildcard: the first arm is chosen.
ChosenArm(rows) == rows[1].arm

\* A variant of the fallback that treats a finite column as covered as soon
\* as one head is switched on.
Fallback_assumes_covered(rows, c, heads) == <<>>

\* The heads the fallback stands for: none when the finite column is
\* covered by the cases.
Fallback(rows, c, heads) == MissingHeads(heads)

\* Steps 2-5 of the algorithm.  example holds, per column, the head the
\* branch has committed to (a wildcard where it has not).
RECURSIVE compile(_, _)
compile(rows, example) ==
    IF rows = <<>> THEN Decision_Failure(example)
    ELSE LET c == LeftmostColumn(rows)
         IN  IF c = 0 THEN Decision_Success(ChosenArm(rows), "T")
             ELSE LET heads == Heads(rows, c, {})
                      missing == Fallback(rows, c, heads)
                  IN  Decision_Switch(
                          Variable(c, "bool"),
                          [k \in 1..Len(heads) |->
                              Case(heads[k], <<>>,
                                   compile(Specialize(rows, c, heads[k]),
                                           [example EXCEPT ![c] = heads[k]]))],
                          IF missing = <<>> THEN NoneOf
                          ELSE Some(compile(DefaultRows(rows, c),
                                            [example EXCEPT ![c] = missing[1]])),
                          "T")

\* The compilation of a match from its arms.
compile_match(armList) ==
    compile(Frontier(armList), [c \in 1..Len(armList[1]) |-> Wildcard])

\* The leaf a scrutinee value reaches.
RECURSIVE evaluate(_, _)
evaluate(d, v) ==
    IF d.kind # "Decision::Switch" THEN d
    ELSE LET c == d.variable.identifier
             hit == {k \in 1..Len(d.cases) : d.cases[k].pattern = v[c]}
         IN  IF hit # {} THEN evaluate(d.cases[Min(hit)].body, v)
             ELSE IF d.fallback.kind = "Option::Some" THEN evaluate(d.fallback.v, v)
             ELSE [kind |-> "Stuck"]

PmInit ==
    /\ EnvIdle
    /\ RdIdle
    /\ AsIdle
    /\ ScIdle
    /\ arms \in ArmLists
    /\ tree = [kind |-> "idle"]
    /\ value = <<>>
    /\ leaf = [kind |-> "idle"]
    /\ mstate = "parsed"

\* The match is compiled.
CompileMatch ==
    /\ mstate = "parsed"
    /\ tree' = compile_match(arms)
    /\ mstate' = "compiled"
    /\ UNCHANGED <<arms, value, leaf>>
    /\ UNCHANGED <<envVars, tcVars, rdVars, asVars, scVars>>

\* The tree is run on the scrutinee value v.
Evaluate(v) ==
    /\ mstate = "compiled"
    /\ Len(v) = Len(arms[1])
    /\ value' = v
    /\ leaf' = evaluate(tree, v)
    /\ mstate' = "evaluated"
    /\ UNCHANGED <<arms, tree>>
    /\ UNCHANGED <<envVars, tcVars, rdVars, asVars, scVars>>

ScrutineeValues ==
    {<<a>> : a \in {"true", "false"}}
    \cup {<<a, b>> : a \in {"true", "false"}, b \in {"true", "false"}}

PmNext ==
    \/ CompileMatch
    \/ \E v \in ScrutineeValues : Evaluate(v)

(***************************************************************************)
(* Assignability (spec 4.3).  Literal and Union types carry, beside the    *)
(* fields of every Type value, the host primitive and the literal types.   *)
(***************************************************************************)
Type_Literal(spelling, host) ==
    [tag |-> "Literal", name |-> spelling, fields |-> <<>>, host |-> host]

Type_Union(name, literals) ==
    [tag |-> "Union", name |-> name, fields |-> <<>>, literals |-> literals]

Bool == Prim("Bool")

LiteralOne == Type_Literal("1", I32)

LiteralTwo == Type_Literal("2", I32)

LiteralTrue == Type_Literal("true", Bool)

OneOrTrue == Type_Union("OneOrTrue", <<LiteralOne, LiteralTrue>>)

OnlyTwo == Type_Union("OnlyTwo", <<LiteralTwo>>)

\* The literal 1 of another host: its canonical spelling, and so its full
\* name, is that of LiteralOne.
LiteralOneI8 == Type_Literal("1", Prim("I8"))

\* A union declared under the name OneOrTrue in another scope, with other
\* literal types: its full name is that of OneOrTrue.
OneOrTrueShadow == Type_Union("OneOrTrue", <<LiteralTwo>>)

\* The types under judgement.  Equality of types is equality of full
\* names: PointA and PointB, I32 and ShadowI32, LiteralOne and
\* LiteralOneI8, and OneOrTrue and OneOrTrueShadow are equal types.
AssignableTypes ==
    {I32, Prim("I8"), Bool, String, Prim("Void"), Unknown,
     PointA, PointB, ShadowI32,
     LiteralOne, LiteralTwo, LiteralTrue, OneOrTrue, OnlyTwo,
     LiteralOneI8, OneOrTrueShadow}

\* Rule (1): the full names are equal.
same_full_name(s, d) == full_name(s) = full_name(d)

\* Rule (2): s is a Literal and its host primitive equals d.
literal_of_host(s, d) == s.tag = "Literal" /\ full_name(s.host) = full_name(d)

\* Rule (3): d is a union containing a literal type equal to s.
union_contains(s, d) ==
    /\ d.tag = "Union"
    /\ \E i \in 1..Len(d.literals) : full_name(d.literals[i]) = full_name(s)

\* Rule (4): d is Unknown.
to_unknown(d) == d.tag = "Unknown"

\* A variant that also lets a host primitive stand for each of its literals.
assignable_either_way(s, d) ==
    \/ same_full_name(s, d)
    \/ literal_of_host(s, d)
    \/ literal_of_host(d, s)
    \/ union_contains(s, d)
    \/ to_unknown(d)

\* s is assignable to d.
assignable(s, d) ==
    \/ same_full_name(s, d)
    \/ literal_of_host(s, d)
    \/ union_contains(s, d)
    \/ to_unknown(d)

AsInit ==
    /\ EnvIdle
    /\ RdIdle
    /\ PmIdle
    /\ ScIdle
    /\ AsIdle

\* Three types come up for judgement.
Present(s, m, d) ==
    /\ src.tag = "idle"
    /\ src' = s
    /\ mid' = m
    /\ dst' = d
    /\ UNCHANGED judged
    /\ UNCHANGED <<envVars, tcVars, rdVars, pmVars, scVars>>

\* src is judged against itself, src against mid, mid against dst and src
\* against dst.
Judge ==
    /\ src.tag # "idle"
    /\ judged = <<>>
    /\ judged' = <<assignable(src, src), assignable(src, mid),
                   assignable(mid, dst), assignable(src, dst)>>
    /\ UNCHANGED <<src, mid, dst>>
    /\ UNCHANGED <<envVars, tcVars, rdVars, pmVars, scVars>>

AsNext ==
    \/ \E s \in AssignableTypes, m \in AssignableTypes, d \in AssignableTypes :
          Present(s, m, d)
    \/ Judge

(***************************************************************************)
(* Scopes during elaboration (spec 4.1, Lifetime).  The elaborator holds   *)
(* one environment per node under elaboration: `scope` is the stack of     *)
(* the nodes entered and not yet finished, innermost last, each with the   *)
(* frame pushed for it.                                                    *)
(***************************************************************************)
NodeKinds == {"Block", "Closure", "FunctionBody", "MatchArm", "LoopBody"}

ScopeNames == {v[1] : v \in VariableInputs}

\* The frame in which the elaborator resolves and declares names.
Current(h, sc) ==
    IF sc = <<>> THEN CHOOSE f \in DOMAIN h : h[f].parent = NoParent
    ELSE sc[Len(sc)].frame

\* What every variable name resolves to from the frame f.
Visible(h, f) == [n \in ScopeNames |-> get_variable(h, f, n)]

ScInit ==
    /\ frames = Alloc([i \in {} |-> new], new)
    /\ birth = [i \in {} |-> frames]
    /\ last = NoCall
    /\ ops = 0
    /\ TcIdle
    /\ checked = NoResult
    /\ result = NoResult
    /\ RdIdle
    /\ PmIdle
    /\ AsIdle
    /\ ScIdle

\* Elaboration enters a node of the kind k: a child of the current frame is
\* pushed.
EnterNode(k) ==
    /\ CanCall
    /\ DOMAIN frames # FrameIds
    /\ frames' = Alloc(frames, new_child(Current(frames, scope)))
    /\ scope' = Append(scope, [kind    |-> k,
                               frame   |-> FreeId(frames),
                               before  |-> Current(frames, scope),
                               visible |-> Visible(frames, Current(frames, scope)),
                               added   |-> {}])
    /\ ops' = ops + 1
    /\ UNCHANGED <<birth, last, left>>
    /\ UNCHANGED <<tcVars, rdVars, pmVars, asVars>>

\* A declaration in the node under elaboration binds n in the current frame.
DeclareVariable(n, t) ==
    /\ CanCall
    /\ frames' = add_variable(frames, Current(frames, scope), n, t).heap
    /\ scope' = IF scope = <<>> THEN scope
                ELSE [scope EXCEPT ![Len(scope)].added = @ \cup {n}]
    /\ ops' = ops + 1
    /\ UNCHANGED <<birth, last, left>>
    /\ UNCHANGED <<tcVars, rdVars, pmVars, asVars>>

\* The innermost node finishes: its frame is dropped.
ExitNode ==
    /\ CanCall
    /\ scope # <<>>
    /\ LET top == scope[Len(scope)]
       IN  /\ frames' = Release(frames, top.frame)
           /\ scope' = SubSeq(scope, 1, Len(scope) - 1)
           /\ left' = [kind    |-> top.kind,
                       frame   |-> top.frame,
                       before  |-> top.before,
                       visible |-> top.visible,
                       added   |-> top.added,
                       inside  |-> Visible(frames, top.frame),
                       dropped |-> top.frame \notin DOMAIN frames',
                       after   |-> Current(frames', scope'),
                       seen    |-> Visible(frames', Current(frames', scope'))]
    /\ ops' = ops + 1
    /\ UNCHANGED <<birth, last>>
    /\ UNCHANGED <<tcVars, rdVars, pmVars, asVars>>

ScNext ==
    \/ \E k \in NodeKinds : EnterNode(k)
    \/ \E v \in VariableInputs : DeclareVariable(v[1], v[2])
    \/ ExitNode

(***************************************************************************)
(* The Indent value on its own: the calls of its methods in any order.     *)
(* `entry` holds the levels before the last call, `indent` the levels      *)
(* after it, `out` the pieces the last dash or dash_end returned and       *)
(* `rstate` the name of the last call.                                     *)
(***************************************************************************)
InInit ==
    /\ EnvIdle
    /\ PmIdle
    /\ AsIdle
    /\ ScIdle
    /\ node = [kind |-> "idle"]
    /\ build = "idle"
    /\ entry = Indent_new
    /\ indent = Indent_new
    /\ out = <<>>
    /\ again = <<>>
    /\ rstate = "new"

\* The call of a method that changes the levels to after.
Called(name, after, drawn) ==
    /\ entry' = indent
    /\ indent' = after
    /\ out' = drawn
    /\ rstate' = name
    /\ UNCHANGED <<node, build, again>>
    /\ UNCHANGED <<envVars, tcVars, pmVars, asVars, scVars>>

Increase ==
    /\ Len(indent) < MaxStack
    /\ Called("increase", increase(indent), <<>>)

IncreaseLeaf ==
    /\ Len(indent) < MaxStack
    /\ Called("increase_leaf", increase_leaf(indent), <<>>)

Decrease == Called("decrease", decrease(indent), <<>>)

EndCurrent == Called("end_current", end_current(indent), <<>>)

Dash == Called("dash", indent, dash(indent))

DashEnd == Called("dash_end", indent, dash_end(indent))

InNext ==
    \/ Increase
    \/ IncreaseLeaf
    \/ Decrease
    \/ EndCurrent
    \/ Dash
    \/ DashEnd

(***************************************************************************)
(* The counter-based renderer of parser/display.rs.  Its Indent holds one  *)
(* usize, level.  A level is kept as an integer; a negative one stands for *)
(* the wrapped value 2^64 + level.  A node's rendering is the sequence of  *)
(* the Indent calls and push_str calls it makes, in the order in which     *)
(* they are made and their texts are written.  While a root is rendered    *)
(* `node` holds the root, `build` the profile, `entry` the calls still to  *)
(* be made, `indent` the level, `out` the pieces written so far and        *)
(* `rstate` how far the root call is.                                      *)
(***************************************************************************)
\* U+2506 with no space after it, which dash_end repeats.
Bar == "|"

\* Indent::new()
parser_Indent_new == 0

\* level - 1 on usize: at 0 it panics with overflow checks and wraps to
\* 2^64 - 1 without them.
level_minus_one(level, profile) ==
    IF level # 0 THEN [tag |-> "Value", v |-> level - 1]
    ELSE IF profile = "debug" THEN [tag |-> "Panic", v |-> 0]
    ELSE [tag |-> "Wrapped", v |-> 0 - 1]

\* A variant of increase that leaves the level as it is.
parser_increase_skipped(level, profile) == [tag |-> "Value", v |-> level]

\* self.level += 1: at 2^64 - 1 it panics with overflow checks and wraps
\* to 0 without them.
parser_increase(level, profile) ==
    IF level # 0 - 1 THEN [tag |-> "Value", v |-> level + 1]
    ELSE IF profile = "debug" THEN [tag |-> "Panic", v |-> 0]
    ELSE [tag |-> "Wrapped", v |-> 0]

\* self.level -= 1
parser_decrease(level, profile) == level_minus_one(level, profile)

\* for _ in 0..self.level - 1 { push(piece) }; push(glyph).  A range whose
\* end is a wrapped value has at least 2^63 items: the String cannot hold
\* them and the process is aborted.
parser_draw(level, profile, piece, glyph) ==
    LET n == level_minus_one(level, profile)
    IN  IF n.tag = "Panic" THEN [tag |-> "Panic", s |-> <<>>]
        ELSE IF n.tag = "Wrapped" \/ n.v < 0 THEN [tag |-> "Abort", s |-> <<>>]
        ELSE [tag |-> "Value", s |-> Append(Repeat(piece, n.v), glyph)]

\* Indent::dash
parser_dash(level, profile) == parser_draw(level, profile, Pipe, Tee)

\* Indent::dash_end
parser_dash_end(level, profile) == parser_draw(level, profile, Bar, Corner)

\* The calls a rendering makes.
CallOf(name) == <<[op |-> name, s |-> <<>>]>>

INC == CallOf("increase")

DEC == CallOf("decrease")

D == CallOf("dash")

DE == CallOf("dash_end")

\* The texts of one format string, written by result.push_str.
P(pieces) == <<[op |-> "push_str", s |-> pieces]>>

\* format!("{}", option) for the two match arms of an Option of a String.
OrNone(o) == IF o.kind = "Option::None" THEN "None" ELSE o.v

RECURSIVE Flat(_)
\* The calls of a loop: those of its first pass, then those of the next.
Flat(passes) ==
    IF Len(passes) = 0 THEN <<>> ELSE Head(passes) \o Flat(Tail(passes))

RECURSIVE parser_display_Statement(_)
RECURSIVE parser_display_Expression(_)
RECURSIVE parser_display_Member(_)
RECURSIVE parser_display_Literal(_)
RECURSIVE parser_display_FieldInitializer(_)
RECURSIVE parser_display_ConditionBlock(_)

\* impl IndentDisplay for AccessModifier
parser_display_AccessModifier(n) ==
    IF n.kind = "AccessModifier::Public" THEN "public" ELSE "internal"

\* if let Some(access_modifier) = access_modifier { .. } else { .. } of the
\* three declarations; the Some arm writes trailing after the modifier.
parser_access_modifier(o, trailing) ==
    IF o.kind = "Option::Some"
    THEN D \o P(<<"access_modifier: ", parser_display_AccessModifier(o.v)>>
                \o trailing)
    ELSE D \o P(<<"access_modifier: None">>)

\* impl IndentDisplay for StructField
parser_display_StructField(n) ==
    P(<<"<struct field> ", n.identifier, Newline>>) \o INC
    \o D \o P(<<"access_modifier: ",
                IF n.access_modifier.kind = "Option::Some"
                THEN parser_display_AccessModifier(n.access_modifier.v)
                ELSE "None", Newline>>)
    \o D \o P(<<"type_name: ", n.type_name, Newline>>)
    \o DE \o P(<<"mutable: ", n.mutable>>)
    \o DEC

\* impl IndentDisplay for UnionMemberField
parser_display_UnionMemberField(n) ==
    P(<<"<union member field>", Newline>>) \o INC
    \o D \o P(<<"identifier: ", OrNone(n.identifier), Newline>>)
    \o DE \o P(<<"type_name: ", n.type_name>>)
    \o DEC

\* impl IndentDisplay for UnionMember: the first field is drawn with dash()
\* and no comma, a later one with dash() and a comma unless it is the last,
\* which is drawn with dash_end().
parser_display_UnionMember(n) ==
    P(<<"<union member> ", n.identifier>>) \o INC
    \o Flat([i \in 1..Len(n.fields) |->
          IF i = 1
          THEN P(<<Newline>>) \o D
                 \o parser_display_UnionMemberField(n.fields[i])
          ELSE IF i < Len(n.fields)
          THEN P(<<Newline>>) \o D
                 \o parser_display_UnionMemberField(n.fields[i]) \o P(<<",">>)
          ELSE P(<<Newline>>) \o DE
                 \o parser_display_UnionMemberField(n.fields[i])])
    \o DEC

\* impl IndentDisplay for Parameter: no increase and no decrease.
parser_display_Parameter(n) ==
    P(<<"<parameter>", Newline>>)
    \o D \o P(<<"parameter: ", n.identifier, Newline>>)
    \o DE \o P(<<"type_name: ", n.type_name>>)

\* impl IndentDisplay for FieldInitializer: no increase and no decrease.
parser_display_FieldInitializer(n) ==
    P(<<"<field initializer>", Newline>>)
    \o D \o P(<<"field initializer: ", OrNone(n.identifier), Newline>>)
    \o DE \o P(<<"initializer: ">>) \o parser_display_Expression(n.initializer)

\* impl IndentDisplay for ConditionBlock
parser_display_ConditionBlock(n) ==
    P(<<"<condition block>", Newline>>) \o INC
    \o D \o P(<<"condition: ">>) \o parser_display_Expression(n.condition)
    \o P(<<Newline>>)
    \o DE \o P(<<"body: ">>) \o parser_display_Expression(n.block)
    \o DEC

\* The loop over field_initializers of a struct or union literal, and the
\* else arm for None.
parser_field_initializers(o) ==
    IF o.kind = "Option::None"
    THEN P(<<Newline>>) \o DE \o P(<<"field_initializers: None">>)
    ELSE Flat([i \in 1..Len(o.v) |->
           IF i < Len(o.v)
           THEN P(<<Newline>>) \o D
                  \o parser_display_FieldInitializer(o.v[i]) \o P(<<",">>)
           ELSE P(<<Newline>>) \o DE
                  \o parser_display_FieldInitializer(o.v[i])])

\* impl IndentDisplay for Literal; a scalar carries the text of its
\* to_string().
parser_display_Literal(n) ==
    CASE n.kind = "Literal::Struct" ->
           P(<<"<struct literal>", Newline>>) \o INC
           \o D \o P(<<"type_name: ", n.type_name>>)
           \o parser_field_initializers(n.field_initializers)
           \o DEC
      [] n.kind = "Literal::Union" ->
           P(<<"<union literal>", Newline>>) \o INC
           \o D \o P(<<"type_name: ", n.type_name, Newline>>)
           \o D \o P(<<"member: ", n.member>>)
           \o parser_field_initializers(n.field_initializers)
           \o DEC
      [] OTHER -> P(<<n.v>>)

\* impl IndentDisplay for Member
parser_display_Member(n) ==
    CASE n.kind = "Member::Identifier" -> P(<<"<identifier> ", n.symbol>>)
      [] n.kind = "Member::MemberAccess" ->
           P(<<"<member access>">>) \o INC
           \o D \o P(<<"object: ">>) \o parser_display_Expression(n.object)
           \o P(<<Newline>>)
           \o D \o P(<<"member: ">>) \o parser_display_Member(n.member)
           \o P(<<Newline>>)
           \o DE \o P(<<"symbol: ", n.symbol>>)
           \o DEC

\* impl IndentDisplay for Expression; an operator carries the text of its
\* indent_display(), a bool and a type name the text of their to_string().
parser_display_Expression(n) ==
    CASE n.kind = "Expression::None" -> <<>>
      [] n.kind = "Expression::VariableDeclaration" ->
           P(<<"<variable declaration>", n.identifier, Newline>>) \o INC
           \o D \o P(<<"mutable: ", n.mutable, Newline>>)
           \o D \o P(<<"type_name: ", n.type_name, Newline>>)
           \o (IF n.initializer.kind = "Option::Some"
               THEN DE \o P(<<"initializer: ">>)
                      \o parser_display_Expression(n.initializer.v)
               ELSE DE \o P(<<"initializer: None">>))
           \o DEC
      [] n.kind = "Expression::If" ->
           P(<<"<if>", Newline>>) \o INC
           \o D \o P(<<"condition:">>)
           \o parser_display_Expression(n.if_.condition)
           \o (IF n.else_ifs.kind = "Option::Some"
               THEN Flat([i \in 1..Len(n.else_ifs.v) |->
                      P(<<Newline>>) \o D
                      \o parser_display_ConditionBlock(n.else_ifs.v[i])
                      \o P(<<Newline>>)
                      \o P(<<Newline>>) \o D \o P(<<"condition: ">>)
                      \o parser_display_Expression(n.else_ifs.v[i].condition)
                      \o P(<<Newline>>)])
               ELSE P(<<Newline>>) \o D \o P(<<"else_ifs: None", Newline>>))
           \o (IF n.else_.kind = "Option::Some"
               THEN DE \o P(<<"else block: ">>)
                      \o parser_display_Expression(n.else_.v)
               ELSE DE \o P(<<"else block: None">>))
           \o DEC
      [] n.kind = "Expression::Assignment" ->
           P(<<"<assignment>", Newline>>) \o INC
           \o D \o P(<<"member: ">>) \o parser_display_Member(n.member)
           \o P(<<Newline>>)
           \o DE \o P(<<"initializer: ">>)
           \o parser_display_Expression(n.initializer)
           \o DEC
      [] n.kind = "Expression::Member" -> parser_display_Member(n.m)
      [] n.kind = "Expression::Literal" -> parser_display_Literal(n.l)
      [] n.kind = "Expression::Call" ->
           P(<<"<call>", Newline>>) \o INC
           \o D \o P(<<"caller: ">>) \o parser_display_Expression(n.caller)
           \o Flat([i \in 1..Len(n.arguments) |->
                 IF i < Len(n.arguments)
                 THEN P(<<Newline>>) \o D \o P(<<"argument: ">>)
                        \o parser_display_Expression(n.arguments[i])
                        \o P(<<",">>)
                 ELSE P(<<Newline>>) \o DE \o P(<<"argument: ">>)
                        \o parser_display_Expression(n.arguments[i])])
           \o DEC
      [] n.kind = "Expression::Unary" ->
           P(<<"<unary>", Newline>>) \o INC
           \o D \o P(<<"operator: ", n.operator, Newline>>)
           \o DE \o P(<<"expression: ">>)
           \o parser_display_Expression(n.expression)
           \o DEC
      [] n.kind = "Expression::Binary" ->
           P(<<"<binary>", Newline>>) \o INC
           \o D \o P(<<"left: ">>) \o parser_display_Expression(n.left)
           \o P(<<Newline>>)
           \o D \o P(<<"operator: ", n.operator, Newline>>)
           \o DE \o P(<<"right: ">>) \o parser_display_Expression(n.right)
           \o DEC
      [] n.kind = "Expression::Ternary" ->
           P(<<"<ternary>", Newline>>) \o INC
           \o D \o P(<<"condition: ">>)
           \o parser_display_Expression(n.condition) \o P(<<Newline>>)
           \o D \o P(<<"true_expression: ">>)
           \o parser_display_Expression(n.true_expression) \o P(<<Newline>>)
           \o DE \o P(<<"false_expression: ">>)
           \o parser_display_Expression(n.false_expression)
           \o DEC
      [] n.kind = "Expression::Block" ->
           P(<<"<block>">>) \o INC
           \o Flat([i \in 1..Len(n.statements) |->
                 IF i < Len(n.statements)
                 THEN P(<<Newline>>) \o D
                        \o parser_display_Statement(n.statements[i])
                        \o P(<<",">>)
                 ELSE P(<<Newline>>) \o DE
                        \o parser_display_Statement(n.statements[i])])
           \o DEC
      [] n.kind = "Expression::Drop" -> P(<<"<drop> ", n.identifier>>)

\* impl IndentDisplay for Statement
parser_display_Statement(n) ==
    CASE n.kind = "Statement::Program" ->
           Flat([i \in 1..Len(n.statements) |->
                 parser_display_Statement(n.statements[i])])
      [] n.kind = "Statement::StructDeclaration" ->
           P(<<"<struct declaration> ", n.type_name, Newline>>) \o INC
           \o parser_access_modifier(n.access_modifier, <<>>)
           \o Flat([i \in 1..Len(n.fields) |->
                 P(<<Newline>>) \o DE
                 \o parser_display_StructField(n.fields[i])])
           \o DEC
      [] n.kind = "Statement::UnionDeclaration" ->
           P(<<"<union declaration> ", n.type_name, Newline>>) \o INC
           \o parser_access_modifier(n.access_modifier, <<Newline>>)
           \o Flat([i \in 1..Len(n.fields) |->
                 P(<<Newline>>) \o DE
                 \o parser_display_UnionMember(n.fields[i])])
           \o DEC
      [] n.kind = "Statement::FunctionDeclaration" ->
           P(<<"<function declaration> ", n.identifier, Newline>>) \o INC
           \o parser_access_modifier(n.access_modifier, <<>>)
           \o Flat([i \in 1..Len(n.parameters) |->
                 P(<<Newline>>) \o D
                 \o parser_display_Parameter(n.parameters[i])
                 \o P(<<Newline>>)])
           \o D \o P(<<"return_type: ", OrNone(n.return_type), Newline>>)
           \o DE \o P(<<"body: ">>) \o parser_display_Expression(n.body)
           \o DEC
      [] n.kind = "Statement::Expression" -> parser_display_Expression(n.e)

\* node.indent_display(indent): the impl that the type of the node selects.
parser_calls(n) ==
    CASE n.kind = "FieldInitializer" -> parser_display_FieldInitializer(n)
      [] n.kind = "Parameter" -> parser_display_Parameter(n)
      [] OTHER -> parser_display_Statement(n)

\* One call made on a rendering st = [level, out, status].
parser_step(st, call, profile) ==
    IF call.op = "push_str" THEN [st EXCEPT !.out = st.out \o call.s]
    ELSE IF call.op \in {"increase", "decrease"}
    THEN LET r == IF call.op = "increase"
                  THEN parser_increase(st.level, profile)
                  ELSE parser_decrease(st.level, profile)
         IN  IF r.tag = "Panic" THEN [st EXCEPT !.status = "panicked"]
             ELSE [st EXCEPT !.level = r.v]
    ELSE LET r == IF call.op = "dash" THEN parser_dash(st.level, profile)
                  ELSE parser_dash_end(st.level, profile)
         IN  IF r.tag = "Panic" THEN [st EXCEPT !.status = "panicked"]
             ELSE IF r.tag = "Abort" THEN [st EXCEPT !.status = "aborted"]
             ELSE [st EXCEPT !.out = st.out \o r.s]

RECURSIVE parser_run(_, _, _)
\* The calls of a rendering made one after the other until one of them
\* ends the process.
parser_run(calls, st, profile) ==
    IF Len(calls) = 0 THEN [st EXCEPT !.status = "returned"]
    ELSE LET next == parser_step(st, Head(calls), profile)
         IN  IF next.status # "running" THEN next
             ELSE parser_run(Tail(calls), next, profile)

\* n.indent_display(&mut indent) of parser/display.rs with indent.level =
\* level: the String returned and the level afterwards.
parser_indent_display(n, level, profile) ==
    parser_run(parser_calls(n),
               [level |-> level, out |-> <<>>, status |-> "running"], profile)

\* The trees rendered.  A composite node is built over one expression e
\* that varies, next to fixed leaves.
ParserInt ==
    [kind |-> "Expression::Literal",
     l |-> [kind |-> "Literal::Int32", v |-> "1"]]

ParserIdentifier == [kind |-> "Member::Identifier", symbol |-> "x"]

ParserLeaves ==
    {[kind |-> "Expression::None"], ParserInt,
     [kind |-> "Expression::Member", m |-> ParserIdentifier],
     [kind |-> "Expression::Drop", identifier |-> "x"]}

FieldInit(identifier, initializer) ==
    [kind |-> "FieldInitializer", identifier |-> identifier,
     initializer |-> initializer]

CondBlock(condition, block) ==
    [kind |-> "ConditionBlock", condition |-> condition, block |-> block]

ExprStatement(e) == [kind |-> "Statement::Expression", e |-> e]

StructLiteral(field_initializers) ==
    [kind |-> "Expression::Literal",
     l |-> [kind |-> "Literal::Struct", type_name |-> "Point",
            field_initializers |-> field_initializers]]

UnionLiteral(field_initializers) ==
    [kind |-> "Expression::Literal",
     l |-> [kind |-> "Literal::Union", type_name |-> "Shape",
            member |-> "Square", field_initializers |-> field_initializers]]

CallOn(arguments) ==
    [kind |-> "Expression::Call",
     caller |-> [kind |-> "Expression::Member", m |-> ParserIdentifier],
     arguments |-> arguments]

BlockOf(statements) ==
    [kind |-> "Expression::Block", statements |-> statements]

IfOf(condition, else_ifs, else_) ==
    [kind |-> "Expression::If", if_ |-> CondBlock(condition, BlockOf(<<>>)),
     else_ifs |-> else_ifs, else_ |-> else_]

\* The composite expressions with no expression that varies.
ParserFixed ==
    {[kind |-> "Expression::VariableDeclaration", mutable |-> "false",
      type_name |-> "i32", identifier |-> "v", initializer |-> NoneOf],
     IfOf(ParserInt, NoneOf, NoneOf),
     CallOn(<<>>),
     [kind |-> "Expression::Unary", operator |-> "-",
      expression |-> ParserInt],
     [kind |-> "Expression::Binary", left |-> ParserInt, operator |-> "+",
      right |-> ParserInt],
     BlockOf(<<>>),
     StructLiteral(NoneOf),
     StructLiteral(Some(<<FieldInit(Some("x"), ParserInt),
                          FieldInit(NoneOf, ParserInt)>>)),
     UnionLiteral(NoneOf)}

\* The composite expressions over e.
ParserOver(e) ==
    {[kind |-> "Expression::VariableDeclaration", mutable |-> "true",
      type_name |-> "i32", identifier |-> "v", initializer |-> Some(e)],
     IfOf(ParserInt, Some(<<CondBlock(ParserInt, BlockOf(<<>>))>>), Some(e)),
     [kind |-> "Expression::Assignment", member |-> ParserIdentifier,
      initializer |-> e],
     [kind |-> "Expression::Member",
      m |-> [kind |-> "Member::MemberAccess", object |-> e,
             member |-> ParserIdentifier, symbol |-> "f"]],
     CallOn(<<ParserInt, e>>),
     [kind |-> "Expression::Ternary", condition |-> ParserInt,
      true_expression |-> e, false_expression |-> ParserInt],
     BlockOf(<<ExprStatement(e)>>),
     StructLiteral(Some(<<FieldInit(Some("x"), e)>>)),
     UnionLiteral(Some(<<FieldInit(NoneOf, e)>>))}

RECURSIVE ParserExpressions(_)
\* The expressions nested at most depth deep.
ParserExpressions(depth) ==
    IF depth = 0 THEN ParserLeaves
    ELSE ParserLeaves \cup ParserFixed
         \cup UNION {ParserOver(e) : e \in ParserExpressions(depth - 1)}

ParserParameters ==
    {[kind |-> "Parameter", identifier |-> "a", type_name |-> "i32"],
     [kind |-> "Parameter", identifier |-> "b", type_name |-> "bool"]}

ParserStructFields ==
    {[kind |-> "StructField", identifier |-> "x", type_name |-> "i32",
      mutable |-> "false", access_modifier |-> am] :
        am \in {NoneOf, Some([kind |-> "AccessModifier::Public"])}}

ParserUnionMemberField(identifier) ==
    [kind |-> "UnionMemberField", identifier |-> identifier,
     type_name |-> "i32"]

ParserUnionMembers ==
    {[kind |-> "UnionMember", identifier |-> "Square", fields |-> fs] :
        fs \in {<<>>, <<ParserUnionMemberField(NoneOf)>>,
                <<ParserUnionMemberField(Some("w")),
                  ParserUnionMemberField(Some("h")),
                  ParserUnionMemberField(NoneOf)>>}}

ParserModifiers ==
    {NoneOf, Some([kind |-> "AccessModifier::Internal"])}

ParserDeclarations ==
    {[kind |-> "Statement::StructDeclaration", access_modifier |-> am,
      type_name |-> "Point", fields |-> fs] :
        am \in ParserModifiers, fs \in SeqsUpTo(ParserStructFields, 2)}
    \cup
    {[kind |-> "Statement::UnionDeclaration", access_modifier |-> am,
      type_name |-> "Shape", fields |-> ms] :
        am \in ParserModifiers, ms \in SeqsUpTo(ParserUnionMembers, 1)}

ParserFunctions ==
    {[kind |-> "Statement::FunctionDeclaration", access_modifier |-> NoneOf,
      identifier |-> "f", parameters |-> ps, return_type |-> rt,
      body |-> body] :
        ps \in SeqsUpTo(ParserParameters, 1), rt \in {NoneOf, Some("i32")},
        body \in ParserExpressions(MaxNest - 1)}

ParserPrograms ==
    {[kind |-> "Statement::Program", statements |-> ss] :
        ss \in {<<>>} \cup
               {<<d, ExprStatement(e)>> :
                   d \in {s \in ParserDeclarations : Len(s.fields) = 0},
                   e \in ParserFixed}}

\* The roots of kind Statement.
ParserStatements ==
    {ExprStatement(e) : e \in ParserExpressions(MaxNest)}
    \cup ParserDeclarations \cup ParserFunctions \cup ParserPrograms

\* The roots of a kind that draws a connector without an increase of its
\* own.
ParserFieldInitializers ==
    {FieldInit(identifier, e) :
        identifier \in {NoneOf, Some("x")}, e \in ParserLeaves}

PdInit ==
    /\ EnvIdle
    /\ PmIdle
    /\ AsIdle
    /\ ScIdle
    /\ node \in ParserStatements \cup ParserFieldInitializers
                \cup ParserParameters
    /\ build \in Profiles
    /\ entry = <<>>
    /\ indent = parser_Indent_new
    /\ out = <<>>
    /\ again = <<>>
    /\ rstate = "ready"

\* node.indent_display(&mut indent) is entered: its calls are still to be
\* made.
ParserIndentDisplay ==
    /\ rstate = "ready"
    /\ entry' = parser_calls(node)
    /\ rstate' = "running"
    /\ UNCHANGED <<node, build, indent, out, again>>
    /\ UNCHANGED <<envVars, tcVars, pmVars, asVars, scVars>>

\* The next call of the rendering is the one named.
ParserCall(name) ==
    /\ entry # <<>>
    /\ Head(entry).op = name
    /\ LET st == parser_step([level |-> indent, out |-> out,
                              status |-> "running"], Head(entry), build)
       IN  /\ indent' = st.level
           /\ out' = st.out
           /\ rstate' = st.status
           /\ entry' = IF st.status = "running" THEN Tail(entry) ELSE entry
    /\ UNCHANGED <<node, build, again>>
    /\ UNCHANGED <<envVars, tcVars, pmVars, asVars, scVars>>

\* indent.increase()
ParserIncrease ==
    /\ rstate = "running"
    /\ ParserCall("increase")

\* indent.decrease()
ParserDecrease ==
    /\ rstate = "running"
    /\ ParserCall("decrease")

\* indent.dash()
ParserDash ==
    /\ rstate = "running"
    /\ ParserCall("dash")

\* indent.dash_end()
ParserDashEnd ==
    /\ rstate = "running"
    /\ ParserCall("dash_end")

\* result.push_str(..)
ParserPushStr ==
    /\ rstate = "running"
    /\ ParserCall("push_str")

\* The root call returns its String.
ParserReturn ==
    /\ rstate = "running"
    /\ entry = <<>>
    /\ rstate' = "returned"
    /\ UNCHANGED <<node, build, entry, indent, out, again>>
    /\ UNCHANGED <<envVars, tcVars, pmVars, asVars, scVars>>

PdNext ==
    \/ ParserIndentDisplay
    \/ ParserIncrease
    \/ ParserDecrease
    \/ ParserDash
    \/ ParserDashEnd
    \/ ParserPushStr
    \/ ParserReturn

\* The type environment under arbitrary calls.
Spec == EnvInit /\ [][EnvNext]_vars

\* One call of create_typed_ast on an arbitrary program.
SpecTypeChecker == TcInit /\ [][TcNext]_vars

\* One call of indent_display on an arbitrary node.
SpecRenderer == RdInit /\ [][RdNext]_vars

\* The compilation of an arbitrary match, and a run of its decision tree.
SpecPatterns == PmInit /\ [][PmNext]_vars

\* The judgement of an arbitrary triple of types.
SpecAssignability == AsInit /\ [][AsNext]_vars

\* The elaboration of arbitrarily nested nodes and declarations.
SpecScopes == ScInit /\ [][ScNext]_vars

\* The methods of one Indent value called in an arbitrary order.
SpecIndent == InInit /\ [][InNext]_vars
\* One call of indent_display of parser/display.rs on an arbitrary root.
SpecParserDisplay == PdInit /\ [][PdNext]_vars

(***************************************************************************)
(* Properties of the type environment.                                     *)
(***************************************************************************)
\* The names the properties range over: the built-in names, the names the
\* calls use, and a name that is never bound.
BuiltinNames == {"void", "()", "bool", "i8", "i16", "i32", "i64", "i128",
                 "u8", "u16", "u32", "u64", "u128", "f32", "f64", "char",
                 "string"}

Names == BuiltinNames \cup {"Point", "x", "unbound"}

Live == DOMAIN frames


\* The frames of a path (f first, the root last) that bind n locally, as
\* positions of the path.
BindersOn(path, maps, n) == {i \in 1..Len(path) : n \in DOMAIN maps[path[i]]}

TypesOf(h) == [g \in DOMAIN h |-> h[g].types]

VariablesOf(h) == [g \in DOMAIN h |-> h[g].variables]

\* C1: add_type(t) returns an error exactly when t.full_name() is a key of
\* the types map of the frame it is called on; when the name is bound only
\* in an ancestor frame the call succeeds and inserts t into the local frame.
C1_AddTypeFailsIffLocalDuplicate ==
    last.op = "add_type" =>
        /\ (last.ret.tag = "Err") <=> (full_name(last.type) \in DOMAIN last.was.types)
        /\ last.ret.tag \in {"Ok", "Err"}
        /\ full_name(last.type) \notin DOMAIN last.was.types =>
              /\ last.ret = Ok
              /\ full_name(last.type) \in DOMAIN frames[last.self].types
              /\ frames[last.self].types[full_name(last.type)] = last.type

\* An add_type that succeeded on a child frame although an ancestor binds
\* the same full name to another type.
C1_Witness ==
    /\ last.op = "add_type"
    /\ last.ret = Ok
    /\ last.type = PointB
    /\ frames[last.self].parent # NoParent
    /\ "Point" \notin DOMAIN last.was.types
    /\ get_type(frames, frames[last.self].parent, "Point") = PointA
    /\ frames[last.self].types["Point"] = PointB

\* C2: get_type(name) and get_variable(name) return the binding of the
\* nearest frame on the path from the queried frame to the root that binds
\* the name, and None exactly when no frame on that path binds it.
C2_LookupReturnsNearestBinding ==
    LET ts == TypesOf(frames)
        vs == VariablesOf(frames)
    IN  \A f \in Live :
            LET path == Chain(frames, f)
            IN  \A n \in Names :
                    LET t  == get_type(frames, f, n)
                        v  == get_variable(frames, f, n)
                        tb == BindersOn(path, ts, n)
                        vb == BindersOn(path, vs, n)
                    IN  /\ t = IF tb = {} THEN None ELSE ts[path[Min(tb)]][n]
                        /\ v = IF vb = {} THEN None ELSE vs[path[Min(vb)]][n]
                        /\ (t = None) <=> (tb = {})
                        /\ (v = None) <=> (vb = {})

\* A frame that shadows both a type and a variable of its parent with
\* different bindings.
C2_Witness ==
    \E f \in Live :
        /\ frames[f].parent # NoParent
        /\ get(frames[f].types, "i32") = ShadowI32
        /\ get_type(frames, frames[f].parent, "i32") = I32
        /\ get(frames[f].variables, "x") = String
        /\ get_variable(frames, frames[f].parent, "x") = I32
        /\ get_type(frames, f, "unbound") = None

\* C3: after any sequence of add_type and add_variable calls on a frame
\* created by new_child, the types map and the variables map of every
\* ancestor frame are what they were when the child was created.
C3_ChildNeverMutatesAncestors ==
    \A f \in Live : \A g \in Ancestors(frames, f) :
        /\ g \in DOMAIN birth[f]
        /\ frames[g].types = birth[f][g].types
        /\ frames[g].variables = birth[f][g].variables
        /\ frames[g].parent = birth[f][g].parent

\* A child frame on which add_variable has bound x, add_type has succeeded
\* and the last add_type failed.
C3_Witness ==
    /\ last.op = "add_type"
    /\ last.ret.tag = "Err"
    /\ frames[last.self].parent # NoParent
    /\ get(frames[last.self].variables, "x") = String
    /\ get_variable(frames, frames[last.self].parent, "x") = None
    /\ get_type(frames, frames[last.self].parent, "i32") = I32

\* The frames that are alive before and after a step.
Surviving == DOMAIN frames \cap DOMAIN frames'

\* A type name bound in a frame stays bound to the same type as long as the
\* frame lives, and a second add_type of the name is reported as an error.
TypesAreWriteOnce ==
    /\ \A f \in Surviving : \A n \in DOMAIN frames[f].types :
           /\ n \in DOMAIN frames'[f].types
           /\ frames'[f].types[n] = frames[f].types[n]
    /\ (ops' # ops /\ last'.op = "add_type"
          /\ full_name(last'.type) \in DOMAIN frames[last'.self].types)
       => last'.ret.tag = "Err"

\* The same for variable names.
VariablesAreWriteOnce ==
    /\ \A f \in Surviving : \A n \in DOMAIN frames[f].variables :
           /\ n \in DOMAIN frames'[f].variables
           /\ frames'[f].variables[n] = frames[f].variables[n]
    /\ (ops' # ops /\ last'.op = "add_variable"
          /\ last'.name \in DOMAIN frames[last'.self].variables)
       => last'.ret.tag = "Err"

\* A variable name bound in a frame stays bound as long as the frame lives;
\* add_variable of a bound name reports nothing and rebinds the name to the
\* type of the latest call.
VariablesAreRebound ==
    /\ \A f \in Surviving : \A n \in DOMAIN frames[f].variables :
           /\ n \in DOMAIN frames'[f].variables
           /\ (frames'[f].variables[n] # frames[f].variables[n])
              => /\ last'.op = "add_variable"
                 /\ last'.self = f
                 /\ last'.name = n
                 /\ frames'[f].variables[n] = last'.type
    /\ (ops' # ops /\ last'.op = "add_variable"
          /\ last'.name \in DOMAIN frames[last'.self].variables)
       => /\ last'.ret = Unit
          /\ frames'[last'.self].variables[last'.name] = last'.type

\* C4 as stated: within one frame a name of a type or of a variable resolves
\* to the type it was first bound to for the whole life of the frame, and a
\* second declaration of the name in the frame is reported as an error.
C4_Original_NamesAreWriteOnce ==
    [][TypesAreWriteOnce /\ VariablesAreWriteOnce]_vars

\* C4 as amended: the above holds for type names; a variable name stays bound
\* but add_variable of a bound name silently rebinds it to the new type.
C4_TypesWriteOnceVariablesRebound ==
    [][TypesAreWriteOnce /\ VariablesAreRebound]_vars

\* A frame that binds the type name Point and in which x, first bound to
\* I32, has just been rebound to String by add_variable.
C4_Witness ==
    /\ last.op = "add_variable"
    /\ last.name = "x"
    /\ last.type = String
    /\ get(last.was.variables, "x") = I32
    /\ get(frames[last.self].variables, "x") = String
    /\ get(frames[last.self].types, "Point") = PointA

\* C5: add_variable(name, t) never fails; it inserts the binding into the
\* local frame or replaces the local binding, so that get_variable(name) on
\* that frame returns t right after the call, whether or not an ancestor
\* binds the name.
C5_AddVariableBindsLocally ==
    last.op = "add_variable" =>
        /\ last.ret = Unit
        /\ get_variable(frames, last.self, last.name) = last.type
        /\ get(frames[last.self].variables, last.name) = last.type
        /\ \A n \in DOMAIN last.was.variables \ {last.name} :
               get(frames[last.self].variables, n) = last.was.variables[n]
        /\ DOMAIN frames[last.self].variables = DOMAIN last.was.variables \cup {last.name}

\* add_variable has replaced a local binding of x in a frame whose parent
\* binds x as well.
C5_Witness ==
    /\ last.op = "add_variable"
    /\ last.name = "x"
    /\ last.type = String
    /\ get(last.was.variables, "x") = I32
    /\ frames[last.self].parent # NoParent
    /\ get_variable(frames, frames[last.self].parent, "x") = I32

\* The pairs (child, outer) of the heap h in which outer, an ancestor of
\* child, bound x to I32 when the child was created (b is the record of the
\* heaps at creation) and the child binds x to String.
Shadowings(h, b) ==
    {p \in (DOMAIN h) \X (DOMAIN h) :
        /\ p[2] \in Ancestors(h, p[1])
        /\ get(b[p[1]][p[2]].variables, "x") = I32
        /\ get(h[p[1]].variables, "x") = String}

\* C6: when the outer frame binds x to I32 and a child frame then binds x to
\* String, get_variable(x) yields String on the child and I32 on the outer
\* frame, both while the child exists and after the child has been dropped.
C6_ShadowingAcrossScopes ==
    [][/\ \A p \in Shadowings(frames', birth') :
              /\ get_variable(frames', p[1], "x") = String
              /\ get_variable(frames', p[2], "x") = I32
       /\ \A p \in Shadowings(frames, birth) :
              p[1] \notin DOMAIN frames' =>
                  /\ p[2] \in DOMAIN frames'
                  /\ get_variable(frames', p[2], "x") = I32]_vars

\* The child that bound x to String below a frame that binds x to I32 has
\* just been dropped, and the outer frame still resolves x to I32.
C6_Witness ==
    /\ last.op = "drop"
    /\ get(last.was.variables, "x") = String
    /\ last.was.parent \in Live
    /\ get(frames[last.was.parent].variables, "x") = I32

\* The primitive type the claim pairs with each built-in name.
BuiltinType(n) ==
    CASE n = "void"   -> Prim("Void")
      [] n = "()"     -> Prim("Unit")
      [] n = "bool"   -> Prim("Bool")
      [] n = "i8"     -> Prim("I8")
      [] n = "i16"    -> Prim("I16")
      [] n = "i32"    -> Prim("I32")
      [] n = "i64"    -> Prim("I64")
      [] n = "i128"   -> Prim("I128")
      [] n = "u8"     -> Prim("U8")
      [] n = "u16"    -> Prim("U16")
      [] n = "u32"    -> Prim("U32")
      [] n = "u64"    -> Prim("U64")
      [] n = "u128"   -> Prim("U128")
      [] n = "f32"    -> Prim("F32")
      [] n = "f64"    -> Prim("F64")
      [] n = "char"   -> Prim("Char")
      [] n = "string" -> Prim("String")

\* The frames of the path from f to the root that are not the root.
NonRoots(h, f) == {g \in {f} \cup Ancestors(h, f) : h[g].parent # NoParent}

\* C7: a root created by new has no parent, no variables and resolves exactly
\* the seventeen built-in names, each to its primitive type; every descendant
\* resolves each of them to the same primitive unless a frame on its chain
\* rebinds the name.
C7_RootHoldsTheBuiltins ==
    /\ last.op = "new" =>
          /\ frames[last.self].parent = NoParent
          /\ frames[last.self].variables = EmptyMap
          /\ \A n \in Names :
                 get_type(frames, last.self, n) =
                     IF n \in BuiltinNames THEN BuiltinType(n) ELSE None
    /\ Cardinality(BuiltinNames) = 17
    /\ \A f \in Live : \A n \in BuiltinNames :
           (\A g \in NonRoots(frames, f) : n \notin DOMAIN frames[g].types)
           => get_type(frames, f, n) = BuiltinType(n)

\* A grandchild of a root that resolves u16 to the primitive while its parent
\* rebinds i32, so that the grandchild resolves i32 to the struct.
C7_Witness ==
    \E f \in Live :
        /\ Len(Chain(frames, f)) = 3
        /\ get(frames[frames[f].parent].types, "i32") = ShadowI32
        /\ get_type(frames, f, "i32") = ShadowI32
        /\ get_type(frames, f, "u16") = Prim("U16")
        /\ frames[f].types = EmptyMap

\* The values lookup_type is asked about: the types of the calls, a built-in
\* type and a type that is never declared.
LookupInputs == TypeInputs \cup {String, Struct("Undeclared", <<>>)}

\* C8: lookup_type(x) is true if and only if get_type(x.full_name()) returns
\* a type, in every reachable environment and for every x.
C8_LookupTypeIsGetTypeAsBoolean ==
    \A f \in Live : \A x \in LookupInputs :
        lookup_type(frames, f, x) <=> (get_type(frames, f, full_name(x)) # None)

\* A child with no local types for which lookup_type is true through the
\* parent for Point and false for the undeclared type.
C8_Witness ==
    \E f \in Live :
        /\ frames[f].parent # NoParent
        /\ frames[f].types = EmptyMap
        /\ lookup_type(frames, f, PointB)
        /\ get_type(frames, f, "Point") = PointA
        /\ ~lookup_type(frames, f, Struct("Undeclared", <<>>))

(***************************************************************************)
(* Properties of create_typed_ast.                                         *)
(***************************************************************************)
\* Elaboration has started: check_type has been called.
ElaborationStarted == epos > 0

\* C9: the discovery pass runs to completion over the whole program before
\* any statement is elaborated, elaboration receives exactly the list that
\* pass produced, and when discovery fails create_typed_ast returns that
\* error without elaboration ever starting.
C9_DiscoveryCompletesBeforeElaboration ==
    LET d == discover_user_defined_types(program)
    IN  /\ pc \in {"start", "discover", "check", "done"}
        /\ (typed # <<>> \/ diagnostics # <<>> \/ frames[RootEnv] # new)
           => ElaborationStarted
        /\ ElaborationStarted =>
              /\ dpos = Len(program) + 1
              /\ d.tag = "Ok"
              /\ given = d.val
              /\ given = discovered
        /\ d.tag = "Err" =>
              /\ ~ElaborationStarted
              /\ pc # "check"
              /\ pc = "done" => result = ErrOf(d.msg)

\* create_typed_ast has returned the discovery error of a program whose
\* first statement is an expression, and nothing has been elaborated.
C9_Witness ==
    /\ pc = "done"
    /\ Len(program) = 3
    /\ program[1] = Expression(TRUE)
    /\ result = ErrOf("DuplicateDeclaration Point")
    /\ dpos = 3
    /\ typed = <<>>
    /\ ~ElaborationStarted

\* C10: for every input program the entry point returns a typed program
\* mirroring the input, one typed statement for each statement; an error
\* never replaces the typed output.
C10_AlwaysReturnsTypedProgram ==
    pc = "done" =>
        /\ result.tag = "Ok"
        /\ Len(result.val) = Len(program)
        /\ \A i \in 1..Len(program) : result.val[i].kind = program[i].kind

\* The statement at position i of prog holds a fatal error of its own: an
\* expression that does not type-check, or a declaration of a name that an
\* earlier statement already declares.
HasFatalError(prog, i) ==
    \/ prog[i].kind = "Expression" /\ ~prog[i].ok
    \/ /\ prog[i].kind = "StructDeclaration"
       /\ \E j \in 1..(i - 1) : /\ prog[j].kind = "StructDeclaration"
                                /\ prog[j].name = prog[i].name

\* Everything create_typed_ast has reported: the diagnostics recorded during
\* elaboration and the error it returned, if it returned one.
Reported ==
    diagnostics \o (IF result.tag = "Err" THEN <<result.msg>> ELSE <<>>)

\* C11: when two sibling statements of a program each hold an independent
\* fatal error, type checking reports one error for each of them, and the
\* error of one statement does not stop the elaboration of the statements
\* after it: every statement of the program is elaborated.
C11_SiblingErrorsAreEachReported ==
    LET bad == {i \in 1..Len(program) : HasFatalError(program, i)}
    IN  (pc = "done" /\ Cardinality(bad) >= 2) =>
            /\ Len(Reported) = Cardinality(bad)
            /\ Len(typed) = Len(program)

(***************************************************************************)
(* Properties of the renderer.                                             *)
(***************************************************************************)
\* The positions at which the lines of the rendered pieces o start.
LineStarts(o) == {1} \cup {i + 1 : i \in {j \in 1..Len(o) : o[j] = Newline}}

\* The number of prefix pieces from position s on.
RECURSIVE PrefixLen(_, _)
PrefixLen(o, s) ==
    IF s <= Len(o) /\ o[s] \in Prefixes THEN 1 + PrefixLen(o, s + 1) ELSE 0

\* The connector of the line that starts at s, after its prefix: a glyph, or
\* "none" for a line that draws no child.
GlyphOf(o, s) ==
    LET g == s + PrefixLen(o, s)
    IN  IF g <= Len(o) /\ o[g] \in Glyphs THEN o[g] ELSE "none"

\* The lines at s and t draw two children of the same level: they have the
\* same depth and every line between them is deeper.
SiblingLines(o, s, t) ==
    /\ s < t
    /\ GlyphOf(o, s) # "none"
    /\ GlyphOf(o, t) # "none"
    /\ PrefixLen(o, s) = PrefixLen(o, t)
    /\ \A u \in LineStarts(o) :
          (s < u /\ u < t) => /\ GlyphOf(o, u) # "none"
                              /\ PrefixLen(o, u) > PrefixLen(o, s)

\* C12: in the output of a typed IR node the corner glyph is drawn only on
\* the last child of a level: no child that is followed by a later sibling
\* of the same level is drawn with the corner.
C12_CornerOnlyOnLastChild ==
    rstate = "returned" =>
        \A s \in LineStarts(out), t \in LineStarts(out) :
            SiblingLines(out, s, t) => GlyphOf(out, s) # Corner

\* C13: the renderer is total: for every typed IR node, the nodes with empty
\* child lists included, indent_display returns a string and never panics.
C13_RendererIsTotal == rstate \in {"ready", "returned"}

Tags == {"<struct declaration>", "<enum declaration>", "<semi>", "<block>",
         "<enum literal>", "<named field initializer>", "<type name>",
         "<struct field>", "<enum member field>", "<enum member>",
         "<decision>", "<case>", "<variable>", "<generic constraints>",
         "<cases>", "<arguments>", "<loop>"}

Labels == {"type_name: ", "where_clause: ", "statement: ", "member: ", "type: ",
           "mutable: ", "identifier: ", "variant: ", "expression: ",
           "error_message: ", "condition: ", "consequence: ", "alternative: ",
           "variable: ", "fallback: ", "pattern: ", "decision: ", "name: ",
           "type_: ", "constraint: ", "case: ", "argument: ", "body: "}

\* The positions of the connectors in the pieces o.
GlyphPositions(o) == {g \in 1..Len(o) : o[g] \in Glyphs}

\* After the connector at g the child is drawn as `label: value`; the key
\* of a named initializer is a label too.
DrawnWithLabel(o, g) ==
    /\ g + 1 <= Len(o)
    /\ \/ o[g + 1] \in Labels
       \/ o[g + 1] \in Identifiers /\ g + 2 <= Len(o) /\ o[g + 2] = ": "

\* C15: the output of every node that can be rendered begins with a <kind>
\* tag, and every child, drawn after its connector, is listed as
\* `label: value`.
C15_EveryNodeBeginsWithTag ==
    rstate = "returned" =>
        /\ out # <<>>
        /\ out[1] \in Tags
        /\ \A g \in GlyphPositions(out) : DrawnWithLabel(out, g)

\* C20: when indent_display returns, the levels of the Indent are what they
\* were on entry, in length and in every is-last bit: every increase and
\* increase_leaf has been matched by a decrease, and end_current has changed
\* no level of the caller.
C20_IndentLeftAsFound == rstate = "returned" => indent = entry

\* A switch with two cases has been rendered inside two open levels of the
\* caller; its last child was drawn with the corner, and both levels of the
\* caller are still open.
C20_Witness ==
    /\ rstate = "returned"
    /\ entry = <<FALSE, FALSE>>
    /\ node.kind = "Decision::Switch"
    /\ Len(node.cases) = 2
    /\ \E g \in GlyphPositions(out) : out[g] = Corner
    /\ indent = <<FALSE, FALSE>>

(***************************************************************************)
(* Properties of the pattern compiler.                                     *)
(***************************************************************************)
\* The arm with the patterns pats matches the scrutinee value v.
Matches(pats, v) == \A c \in 1..Len(pats) : IsWildcard(pats[c]) \/ pats[c] = v[c]

MatchingArms(armList, v) == {i \in 1..Len(armList) : Matches(armList[i], v)}

\* The values of the scrutinee type of a match.
ValuesOf(armList) == {v \in ScrutineeValues : Len(v) = Len(armList[1])}

\* The arms cover every value of the scrutinee type.
Covers(armList) == \A v \in ValuesOf(armList) : MatchingArms(armList, v) # {}

\* The uncovered examples of the Failure leaves of a tree.
RECURSIVE FailureExamples(_)
FailureExamples(d) ==
    IF d.kind = "Decision::Failure" THEN {d.error_message}
    ELSE IF d.kind = "Decision::Switch"
    THEN UNION {FailureExamples(d.cases[k].body) : k \in 1..Len(d.cases)}
         \cup (IF d.fallback.kind = "Option::Some"
               THEN FailureExamples(d.fallback.v) ELSE {})
    ELSE {}

\* The arms of the Success leaves of a tree.
RECURSIVE SuccessArms(_)
SuccessArms(d) ==
    IF d.kind = "Decision::Success" THEN {d.expression}
    ELSE IF d.kind = "Decision::Switch"
    THEN UNION {SuccessArms(d.cases[k].body) : k \in 1..Len(d.cases)}
         \cup (IF d.fallback.kind = "Option::Some"
               THEN SuccessArms(d.fallback.v) ELSE {})
    ELSE {}

\* The arms that no leaf chooses.
Unreachable(d, armList) == (1..Len(armList)) \ SuccessArms(d)

Compiled == mstate \in {"compiled", "evaluated"}

\* C16: the compiled decision tree holds a Failure leaf if and only if the
\* arms do not cover every value of the scrutinee type, and the example of
\* every Failure leaf is a value that no arm matches.  A match on Bool
\* whose only arm is `true` yields a Failure with the example `false`;
\* with a second arm `false` or a wildcard the tree holds no Failure.
C16_FailureIffNotExhaustive ==
    Compiled =>
        /\ (FailureExamples(tree) # {}) <=> ~Covers(arms)
        /\ \A e \in FailureExamples(tree) :
              \A v \in ValuesOf(arms) : Matches(e, v) => MatchingArms(arms, v) = {}
        /\ arms = <<<<"true">>>> => FailureExamples(tree) = {<<"false">>}
        /\ arms \in {<<<<"true">>, <<"false">>>>, <<<<"true">>, <<Wildcard>>>>}
              => FailureExamples(tree) = {}

\* The match on Bool whose only arm is `true` has been compiled into a
\* switch whose fallback is the Failure with the example `false`.
C16_Witness ==
    /\ mstate = "compiled"
    /\ arms = <<<<"true">>>>
    /\ tree.kind = "Decision::Switch"
    /\ tree.fallback = Some(Decision_Failure(<<"false">>))

\* C17: pattern compilation prefers earlier arms.  When every pattern of
\* every arm is a wildcard the tree is the Success leaf of the first arm
\* and all later arms are unreachable; and a scrutinee value that several
\* arms match reaches the Success leaf of the earliest of them.
C17_EarliestArmWins ==
    /\ (Compiled /\ \A i \in 1..Len(arms) : \A c \in 1..Len(arms[i]) :
                        IsWildcard(arms[i][c]))
          => /\ tree = Decision_Success(1, "T")
             /\ Unreachable(tree, arms) = 2..Len(arms)
    /\ (mstate = "evaluated" /\ MatchingArms(arms, value) # {})
          => leaf = Decision_Success(Min(MatchingArms(arms, value)), "T")

\* A value that the first and the second of three arms match has reached
\* the leaf of the first, through a switch.
C17_Witness ==
    /\ mstate = "evaluated"
    /\ arms = <<<<Wildcard, "true">>, <<"true", Wildcard>>, <<Wildcard, Wildcard>>>>
    /\ value = <<"true", "true">>
    /\ MatchingArms(arms, value) = {1, 2, 3}
    /\ tree.kind = "Decision::Switch"
    /\ leaf = Decision_Success(1, "T")

LiteralsOfTwoHosts(s, m) ==
    /\ s.tag = "Literal"
    /\ m.tag = "Literal"
    /\ full_name(s) = full_name(m)
    /\ full_name(s.host) # full_name(m.host)

\* m and d are two unions of one full name, and d holds a literal type
\* that m does not hold or m one that d does not hold.
UnionsOfTwoBodies(m, d) ==
    /\ m.tag = "Union"
    /\ d.tag = "Union"
    /\ full_name(m) = full_name(d)
    /\ {full_name(m.literals[i]) : i \in 1..Len(m.literals)}
         # {full_name(d.literals[i]) : i \in 1..Len(d.literals)}

C19_PushPopDiscipline ==
    /\ Cardinality(DOMAIN frames) = Len(scope) + 1
    /\ \A i \in 1..Len(scope) :
          /\ scope[i].frame \in DOMAIN frames
          /\ frames[scope[i].frame].parent = scope[i].before
          /\ scope[i].before = Current(frames, SubSeq(scope, 1, i - 1))
          /\ \A j \in 1..Len(scope) : scope[j].frame = scope[i].frame => j = i
    /\ left.kind # "idle" =>
          /\ left.dropped
          /\ left.after = left.before
          /\ left.seen = left.visible

\* A block in which x was declared a String, where x was an I32 before,
\* has finished, and x is an I32 again.
C19_Witness ==
    /\ left.kind = "Block"
    /\ scope = <<>>
    /\ left.added = {"x"}
    /\ left.visible["x"] = I32
    /\ left.inside["x"] = String
    /\ left.seen["x"] = I32
    /\ get_variable(frames, Current(frames, scope), "x") = I32

(***************************************************************************)
(* Properties of Indent.                                                   *)
(***************************************************************************)
\* The piece drawn for an outer level: two spaces under an ended level,
\* the pipe under an open one.
OuterPiece(ended) == IF ended THEN Blank ELSE Pipe

\* C21: for a stack of n >= 1 levels dash and dash_end draw one piece for
\* each of the first n - 1 levels, in order (two spaces if the level is
\* marked ended, the pipe otherwise); dash then draws the tee whatever the
\* innermost level is, dash_end the corner if the innermost level is
\* marked ended and the tee otherwise.  On an empty stack dash draws just
\* the tee and dash_end nothing, and end_current and decrease change
\* nothing.
C21_ConnectorsFollowTheStack ==
    LET n == Len(entry)
    IN  /\ rstate \in {"dash", "dash_end"} =>
              /\ indent = entry
              /\ n >= 1 => /\ Len(out) = n
                           /\ \A i \in 1..(n - 1) : out[i] = OuterPiece(entry[i])
        /\ (rstate = "dash" /\ n >= 1) => out[n] = Tee
        /\ (rstate = "dash_end" /\ n >= 1) =>
              out[n] = (IF entry[n] THEN Corner ELSE Tee)
        /\ (rstate = "dash" /\ n = 0) => out = <<Tee>>
        /\ (rstate = "dash_end" /\ n = 0) => out = <<>>
        /\ (rstate \in {"end_current", "decrease"} /\ n = 0) => indent = <<>>

\* dash was called on three levels of which the innermost is marked ended:
\* it drew the pipe, two spaces and the tee.
C21_Witness ==
    /\ rstate = "dash"
    /\ entry = <<FALSE, TRUE, TRUE>>
    /\ out = <<Pipe, Blank, Tee>>

\* The line at t draws a descendant of the child drawn by the line at s.
DescendantLine(o, s, t) ==
    /\ s < t
    /\ GlyphOf(o, s) # "none"
    /\ \A u \in LineStarts(o) :
          (s < u /\ u <= t) => /\ GlyphOf(o, u) # "none"
                               /\ PrefixLen(o, u) > PrefixLen(o, s)

\* The child drawn by the line at s is followed by a later sibling.
HasLaterSibling(o, s) == \E t \in LineStarts(o) : SiblingLines(o, s, t)

\* C22: pipe continuity.  Every line of a descendant of a child shows, in
\* the column of the level of that child, the pipe when the child is
\* followed by a later sibling and two spaces when it is the last child,
\* also under a level opened with increase_leaf.
C22_PipeUnderEveryOpenLevel ==
    rstate = "returned" =>
        \A s \in LineStarts(out), t \in LineStarts(out) :
            DescendantLine(out, s, t) =>
                out[t + PrefixLen(out, s)] =
                    (IF HasLaterSibling(out, s) THEN Pipe ELSE Blank)

\* The positions of the line of `o` that starts at s.
LinePositions(o, s) ==
    {p \in s..Len(o) : \A q \in s..p : q = p \/ o[q] # Newline}

\* C23: the rendered tree is line-oriented.  Every line holds at most one
\* connector, and the connector is preceded on its line by indentation
\* only: a connector is found nowhere but right after the prefix of a line.
C23_OneConnectorPerLine ==
    rstate = "returned" =>
        \A s \in LineStarts(out) :
            \A p \in LinePositions(out, s) :
                out[p] \in Glyphs \cup Prefixes => p <= s + PrefixLen(out, s)

\* The lines of `o` that draw the items of a vector rendered under k
\* levels: the lines with a connector after a prefix of k pieces.
ItemLines(o, k) ==
    {s \in LineStarts(o) : PrefixLen(o, s) = k /\ GlyphOf(o, s) # "none"}

\* The i-th of them.
ItemLine(o, k, i) ==
    CHOOSE s \in ItemLines(o, k) :
        Cardinality({t \in ItemLines(o, k) : t < s}) = i - 1

\* C24: indent_display_vec on a list of n items writes the header and then
\* n item lines in list order, each with the label of the items: the
\* first n - 1 are drawn with the tee and end with a comma, the last is
\* drawn with the corner and no comma.  For n = 0 it writes the header only
\* and marks no level as ended.
C24_VecDrawsItemsInOrder ==
    (rstate = "returned" /\ node.kind = "Vec") =>
        LET n == Len(node.vec)
            k == Len(entry)
            cfg == [build |-> build, pass |-> 1]
        IN  /\ out[1] = node.parent_type_name
            /\ indent = entry
            /\ n = 0 => out = <<node.parent_type_name>>
            /\ Cardinality(ItemLines(out, k)) = n
            /\ \A i \in 1..n :
                  LET s == ItemLine(out, k, i)
                      item == indent_display(node.vec[i], Append(entry, i = n), cfg).out
                      stop == IF i < n THEN ItemLine(out, k, i + 1) - 2 ELSE Len(out)
                  IN  /\ out[s + k] = (IF i < n THEN Tee ELSE Corner)
                      /\ \A j \in 1..k : out[s + j - 1] = OuterPiece(entry[j])
                      /\ out[s + k + 1] = node.item_field_name
                      /\ SubSeq(out, s + k + 2, s + k + 1 + Len(item)) = item
                      /\ stop = s + k + 1 + Len(item) + (IF i < n THEN 1 ELSE 0)
                      /\ (i < n) => out[stop] = ","
                      /\ (i = n) => out[stop] # ","

\* Three arguments were rendered under one open level: two lines drawn
\* with the tee and the last with the corner.
C24_Witness ==
    /\ rstate = "returned"
    /\ node = Vec(<<Variable("v", "bool"), Variable("w", "bool"), Variable("v", "bool")>>,
                  "<arguments>", "argument: ")
    /\ entry = <<FALSE>>
    /\ Cardinality({s \in ItemLines(out, 1) : GlyphOf(out, s) = Tee}) = 2
    /\ Cardinality({s \in ItemLines(out, 1) : GlyphOf(out, s) = Corner}) = 1
    /\ out[Len(out)] = "bool"

(***************************************************************************)
(* Further properties of the type environment.                             *)
(***************************************************************************)
\* The step is a call of the operation op.
Calls(op) == ops' # ops /\ last'.op = op

\* C25: a failing add_type changes nothing.  When add_type(t) returns an
\* error the local types map holds the binding it held before the call
\* (the earlier type is not replaced by t), and the variables map and all
\* other frames are unchanged.
C25_FailingAddTypeChangesNothing ==
    [][(Calls("add_type") /\ last'.ret.tag = "Err") =>
            /\ full_name(last'.type) \in DOMAIN frames[last'.self].types
            /\ frames'[last'.self].types = frames[last'.self].types
            /\ frames'[last'.self].variables = frames[last'.self].variables
            /\ frames' = frames]_vars

\* add_type of the second struct named Point has failed on a child frame
\* that binds Point to the first and x as a variable: Point is still the
\* first struct.
C25_Witness ==
    /\ last.op = "add_type"
    /\ last.ret.tag = "Err"
    /\ last.type = PointB
    /\ frames[last.self].parent # NoParent
    /\ get(last.was.types, "Point") = PointA
    /\ get(frames[last.self].types, "Point") = PointA
    /\ get(frames[last.self].variables, "x") = I32
    /\ frames[last.self] = last.was

\* C26: type bindings are stored under their full name and are
\* write-once.  After a successful add_type(t) on a frame,
\* get_type(t.full_name()) on the frame returns t and lookup_type(t) is
\* true; a type bound in a frame is found under the full name of the type,
\* and no later call removes or replaces it while the frame lives.
C26_TypeBindingsAreWriteOnce ==
    [][/\ (Calls("add_type") /\ last'.ret = Ok) =>
              /\ get_type(frames', last'.self, full_name(last'.type)) = last'.type
              /\ lookup_type(frames', last'.self, last'.type)
       /\ \A f \in DOMAIN frames' : \A n \in DOMAIN frames'[f].types :
              /\ full_name(frames'[f].types[n]) = n
              /\ get_type(frames', f, n) = frames'[f].types[n]
              /\ lookup_type(frames', f, frames'[f].types[n])
       /\ \A f \in Surviving : \A n \in DOMAIN frames[f].types :
              /\ n \in DOMAIN frames'[f].types
              /\ frames'[f].types[n] = frames[f].types[n]]_vars

\* A frame on which add_type(Point) succeeded, and on which an add_variable,
\* a failed add_type of another Point and an add_type of another name
\* followed: Point is still the first struct.
C26_Witness ==
    /\ last.op = "add_type"
    /\ last.ret = Ok
    /\ last.type = ShadowI32
    /\ get(last.was.types, "Point") = PointA
    /\ get(last.was.variables, "x") = String
    /\ get_type(frames, last.self, "Point") = PointA
    /\ lookup_type(frames, last.self, PointA)
    /\ get_type(frames, last.self, "i32") = ShadowI32

\* The names the calls use, a built-in name and a name that is never bound.
CallNames == {"i32", "Point", "x", "u16", "unbound"}

\* C27: a parent frame is frozen while a child created from it exists.  No
\* add_type or add_variable is made on a frame that has a live child, so
\* for a name that a child does not bind locally get_type, get_variable
\* and lookup_type on the child return, at every point of the life of the
\* child, what they returned when the child was created.
C27_ParentFrozenWhileChildLives ==
    /\ last.op \in {"add_type", "add_variable"} => Children(frames, last.self) = {}
    /\ \A f \in Live :
          frames[f].parent # NoParent =>
              LET p == frames[f].parent
              IN  /\ p \in DOMAIN birth[f]
                  /\ \A n \in CallNames :
                        /\ n \notin DOMAIN frames[f].types =>
                              get_type(frames, f, n) = get_type(birth[f], p, n)
                        /\ n \notin DOMAIN frames[f].variables =>
                              get_variable(frames, f, n) = get_variable(birth[f], p, n)
                  /\ \A x \in LookupInputs :
                        full_name(x) \notin DOMAIN frames[f].types =>
                            lookup_type(frames, f, x) = lookup_type(birth[f], p, x)

\* A child on which add_type and add_variable have been called resolves
\* Point, which it does not bind, to the struct its parent bound before
\* the child was created.
C27_Witness ==
    /\ last.op = "add_variable"
    /\ frames[last.self].parent # NoParent
    /\ get(frames[last.self].types, "i32") = ShadowI32
    /\ "Point" \notin DOMAIN frames[last.self].types
    /\ get_type(frames, last.self, "Point") = PointA
    /\ get_type(birth[last.self], frames[last.self].parent, "Point") = PointA
    /\ lookup_type(frames, last.self, PointB)

\* C28: the namespace of the types and the namespace of the variables are
\* independent.  add_variable changes the result of get_type and of
\* lookup_type for no name and no frame, add_type changes the result of
\* get_variable for no name and no frame, and a name may be bound as a type
\* and as a variable in one frame: neither call fails because of a
\* binding in the other namespace.
C28_NamespacesAreIndependent ==
    [][/\ Calls("add_variable") =>
              /\ last'.ret = Unit
              /\ \A f \in DOMAIN frames :
                    /\ \A n \in CallNames :
                          get_type(frames', f, n) = get_type(frames, f, n)
                    /\ \A x \in LookupInputs :
                          lookup_type(frames', f, x) = lookup_type(frames, f, x)
       /\ Calls("add_type") =>
              /\ \A f \in DOMAIN frames : \A n \in CallNames :
                    get_variable(frames', f, n) = get_variable(frames, f, n)
              /\ (last'.ret.tag = "Err") <=>
                    (full_name(last'.type) \in DOMAIN frames[last'.self].types)]_vars

\* Point is bound in one frame as a type and as a variable: add_type(Point)
\* has returned Ok on a frame in which Point was a variable already.
C28_Witness ==
    /\ last.op = "add_type"
    /\ last.ret = Ok
    /\ last.type = PointA
    /\ get(last.was.variables, "Point") = I32
    /\ get_variable(frames, last.self, "Point") = I32
    /\ get_type(frames, last.self, "Point") = PointA

\* C29: get_types and get_variables expose the local frame only.  On a
\* frame made by new_child both are empty, although get_type of a built-in
\* name succeeds on it; add_type and add_variable add their binding to the
\* map of the frame they are called on, and no other call and no call on
\* another frame changes what the two return.
C29_GetTypesExposesLocalFrameOnly ==
    [][/\ Calls("new_child") =>
              /\ get_types(frames', last'.self) = EmptyMap
              /\ get_variables(frames', last'.self) = EmptyMap
              /\ get_type(frames', last'.self, "u16") = Prim("U16")
       /\ \A f \in Surviving :
              /\ get_types(frames', f) =
                    IF Calls("add_type") /\ last'.self = f /\ last'.ret = Ok
                    THEN insert(get_types(frames, f), full_name(last'.type), last'.type)
                    ELSE get_types(frames, f)
              /\ get_variables(frames', f) =
                    IF Calls("add_variable") /\ last'.self = f
                    THEN insert(get_variables(frames, f), last'.name, last'.type)
                    ELSE get_variables(frames, f)]_vars

\* A child frame after add_type and add_variable on it: its get_types
\* holds the one type added to it and its get_variables the one variable,
\* while i32, which get_types of its parent holds, resolves on the child
\* through the parent chain.
C29_Witness ==
    /\ last.op = "add_variable"
    /\ frames[last.self].parent # NoParent
    /\ DOMAIN get_types(frames, last.self) = {"Point"}
    /\ get_types(frames, last.self)["Point"] = PointB
    /\ DOMAIN get_variables(frames, last.self) = {"x"}
    /\ get_type(frames, last.self, "i32") = I32
    /\ get_types(frames, frames[last.self].parent)["i32"] = I32

(***************************************************************************)
(* Properties of the counter-based renderer.                               *)
(***************************************************************************)
\* C30: while a Statement is rendered from a fresh Indent, no call of dash,
\* dash_end or decrease is made at level 0, so no call panics or wraps, and
\* the level is 0 again when the root call has returned.
C30_LevelNeverUnderflows ==
    node \in ParserStatements =>
        /\ rstate \notin {"panicked", "aborted"}
        /\ (rstate = "running" /\ entry # <<>>
              /\ Head(entry).op \in {"dash", "dash_end", "decrease"})
             => indent >= 1
        /\ rstate = "returned" => indent = parser_Indent_new

\* A function declaration with a parameter whose body holds a struct literal
\* with a field initializer has been rendered: Parameter and
\* FieldInitializer, which increase nothing themselves, drew their
\* connectors, and the level is 0.
C30_Witness ==
    /\ node \in ParserStatements
    /\ node.kind = "Statement::FunctionDeclaration"
    /\ rstate = "returned"
    /\ indent = 0
    /\ \E i \in 1..Len(out) : out[i] = "<parameter>"
    /\ \E i \in 1..Len(out) : out[i] = "<field initializer>"
    /\ \E i \in 1..Len(out) : out[i] = Pipe

====
